---- MODULE Spec2Model ----
(***************************************************************************)
(* A model of the LLM-as-judge evaluation engine (src/judge/engine.py):    *)
(* the tolerant response parser and scorer, the single-conversation        *)
(* evaluate() call, and the semaphore-bounded evaluate_batch().            *)
(*                                                                         *)
(* Numbers.  Dimension scores are kept in tenths (score 4.5 is 45) and     *)
(* weights in hundredths (weight 0.25 is 25).  overall_score is an exact   *)
(* rational [n, d] in lowest terms, so 1.0 is [n |-> 1, d |-> 1] and 0.2   *)
(* is [n |-> 1, d |-> 5].                                                  *)
(*                                                                         *)
(* Text.  A Python str is a sequence of atoms.  The literals the code      *)
(* writes are spelled character by character, so that a case-sensitive     *)
(* substring test can be made on them; text that comes from outside (an    *)
(* exception message, a chunk of model output) is one opaque atom.         *)
(*                                                                         *)
(* JSON.  A decoded JSON value is a tagged record: [t |-> "dict", m |-> f] *)
(* with f a function from keys to values, [t |-> "num", n |-> tenths],     *)
(* [t |-> "bool", b |-> ...], [t |-> "str", s |-> text], [t |-> "list",    *)
(* l |-> seq] and [t |-> "null"].                                          *)
(***************************************************************************)
EXTENDS Integers, Sequences, FiniteSets, TLC

\* ------------------------------------------------------------------ bounds
\* Most entries of dimension_scores in one model response.
MaxDims == 2
\* Most conversations in one batch.
MaxConvs == 3
\* Largest value of evaluate_batch's `concurrency` argument.
MaxConcurrency == 2

\* ------------------------------------------------------------ JSON values
JDict(f) == [t |-> "dict", m |-> f]
JNum(n) == [t |-> "num", n |-> n]
JBool(b) == [t |-> "bool", b |-> b]
JStr(s) == [t |-> "str", s |-> s]
JList(l) == [t |-> "list", l |-> l]
JNull == [t |-> "null"]
EmptyMap == [k \in {} |-> JNull]

\* Python's None where a str is optional (EvaluationResult.raw_response).
PyNone == [t |-> "none"]

\* dict.get(key, default) on a value known to be a dict.
DictGet(d, key, default) == IF key \in DOMAIN d.m THEN d.m[key] ELSE default

\* ------------------------------------------------------------------- text
\* s is a (contiguous) substring of text: Python's `s in text`.
Contains(text, s) ==
    \E i \in 0..(Len(text) - Len(s)) :
        \A j \in 1..Len(s) : text[i + j] = s[j]

RECURSIVE SumOver(_, _)
\* The sum of f[k] over k in S.
SumOver(f, S) ==
    IF S = {} THEN 0
    ELSE LET k == CHOOSE x \in S : TRUE IN f[k] + SumOver(f, S \ {k})

RECURSIVE Gcd(_, _)
Gcd(a, b) == IF b = 0 THEN a ELSE Gcd(b, a % b)

\* The rational n/d (n >= 0, d > 0) in lowest terms.
Rat(n, d) == LET g == Gcd(n, d) IN [n |-> n \div g, d |-> d \div g]

\* ------------------------------------------------------------- exceptions
\* A raised Python exception: its class and str(e), a text.
Exc(type, msg) == [type |-> type, msg |-> msg]

\* type(v).__name__ of a decoded JSON value.
TypeName(v) ==
    CASE v.t = "dict" -> "dict"
      [] v.t = "list" -> "list"
      [] v.t = "str" -> "str"
      [] v.t = "num" -> "float"
      [] v.t = "bool" -> "bool"
      [] OTHER -> "NoneType"

\* Calling attribute `attr` on a value that has none.
AttributeError(v, attr) ==
    Exc("AttributeError", <<"'", TypeName(v), "' object has no attribute '", attr, "'">>)

\* Dividing a non-number by 5.0.
TypeError(v) ==
    Exc("TypeError", <<"unsupported operand type(s) for /: '", TypeName(v), "' and 'float'">>)

\* What a call ends with: a returned value or a raised exception.
Returned(v) == [kind |-> "return", value |-> v]
Raised(e) == [kind |-> "raise", exc |-> e]

\* ----------------------------------------------------------- model output
\* The raw text of a model reply is a sequence of tokens: the two Markdown
\* fence markers, white space, a chunk of prose, or the text of one JSON
\* document (kept as the value it decodes to).
FenceJson == [k |-> "fence_json"]
Fence == [k |-> "fence"]
Ws == [k |-> "ws"]
Prose(s) == [k |-> "prose", s |-> s]
JsonDoc(v) == [k |-> "json", v |-> v]

IsFence(tok) == tok.k \in {"fence_json", "fence"}

\* Python's `marker in response`; "```" is a prefix of "```json".
HasMarker(response, marker) ==
    \E i \in 1..Len(response) :
        IF marker = Fence THEN IsFence(response[i]) ELSE response[i] = marker

\* response.split(marker)[1]: what follows the first marker, up to the next
\* occurrence of the same marker (or the end).
SplitSecond(response, marker) ==
    LET hit(i) == IF marker = Fence THEN IsFence(response[i]) ELSE response[i] = marker
        first == CHOOSE i \in 1..Len(response) :
                     hit(i) /\ \A j \in 1..(i - 1) : ~hit(j)
        later == {i \in (first + 1)..Len(response) : hit(i)}
        stop == IF later = {} THEN Len(response) + 1
                ELSE CHOOSE i \in later : \A j \in later : i <= j
    IN SubSeq(response, first + 1, stop - 1)

\* text.split("```")[0]: what precedes the first fence of either kind.
SplitFirst(text) ==
    LET fences == {i \in 1..Len(text) : IsFence(text[i])}
        stop == IF fences = {} THEN Len(text) + 1
                ELSE CHOOSE i \in fences : \A j \in fences : i <= j
    IN SubSeq(text, 1, stop - 1)

\* engine.py lines 289-293: the text handed to the JSON parser.
ExtractJson(response) ==
    IF HasMarker(response, FenceJson) THEN SplitFirst(SplitSecond(response, FenceJson))
    ELSE IF HasMarker(response, Fence) THEN SplitFirst(SplitSecond(response, Fence))
    ELSE response

RECURSIVE LStrip(_)
LStrip(text) ==
    IF text # <<>> /\ Head(text) = Ws THEN LStrip(Tail(text)) ELSE text

RECURSIVE RStrip(_)
RStrip(text) ==
    IF text # <<>> /\ text[Len(text)] = Ws
    THEN RStrip(SubSeq(text, 1, Len(text) - 1)) ELSE text

\* str.strip()
Strip(text) == RStrip(LStrip(text))

\* json.loads(text): the decoded value, or a JSONDecodeError.
JsonLoads(text) ==
    IF text = <<>> \/ Head(text).k # "json"
    THEN Raised(Exc("JSONDecodeError", <<"Expecting value: line 1 column 1 (char 0)">>))
    ELSE IF Len(text) > 1
    THEN Raised(Exc("JSONDecodeError", <<"Extra data: line 2 column 1 (char 9)">>))
    ELSE Returned(Head(text).v)

\* ----------------------------------------------------------------- rubric
\* A rubric dimension: display name and weight in hundredths.
RubricDimension(name, weight) == [name |-> name, weight |-> weight]

\* The built-in rubric.
DEFAULT_RUBRIC ==
    [name |-> "default_rubric",
     version |-> "1.0.0",
     dimensions |->
        [d \in {"accuracy", "tone", "compliance", "completeness",
                "language_quality", "efficiency"} |->
            CASE d = "accuracy" -> RubricDimension("Accuracy", 25)
              [] d = "tone" -> RubricDimension("Tone", 20)
              [] d = "compliance" -> RubricDimension("Compliance", 20)
              [] d = "completeness" -> RubricDimension("Completeness", 15)
              [] d = "language_quality" -> RubricDimension("Language Quality", 10)
              [] OTHER -> RubricDimension("Efficiency", 10)],
     few_shot_examples |-> <<"example-1">>,
     calibration_notes |-> <<"## Calibration Guidelines">>]

\* A rubric as RubricLoader._load_from_file builds it from a JSON file: the
\* weights are whatever the file states.  This one switches accuracy off
\* (weight 0) and splits the weight between tone and compliance.
FILE_RUBRIC ==
    [name |-> "strict_compliance",
     version |-> "2.0.0",
     dimensions |->
        [d \in {"accuracy", "tone", "compliance"} |->
            CASE d = "accuracy" -> RubricDimension("Accuracy", 0)
              [] d = "tone" -> RubricDimension("Tone", 50)
              [] OTHER -> RubricDimension("Compliance", 50)],
     few_shot_examples |-> <<>>,
     calibration_notes |-> <<>>]

\* The rubrics an engine may be constructed with.
Rubrics == {DEFAULT_RUBRIC, FILE_RUBRIC}

\* ---------------------------------------------------------------- results
DimensionScore(score, weight, reasoning, evidence) ==
    [score |-> score, weight |-> weight, reasoning |-> reasoning, evidence |-> evidence]

ChainOfThought(context_analysis, response_analysis, legal_check, language_assessment) ==
    [context_analysis |-> context_analysis, response_analysis |-> response_analysis,
     legal_check |-> legal_check, language_assessment |-> language_assessment]

EvaluationFlags(critical_error, compliance_issue, escalation_needed) ==
    [critical_error |-> critical_error, compliance_issue |-> compliance_issue,
     escalation_needed |-> escalation_needed]

\* The literal "Error: " of _create_error_result, by character.
ErrorPrefix == <<"E", "r", "r", "o", "r", ":", " ">>

\* The literal "Evaluation failed: ".
FailedPrefix ==
    <<"E", "v", "a", "l", "u", "a", "t", "i", "o", "n", " ",
      "f", "a", "i", "l", "e", "d", ":", " ">>

\* The literal "JSON parse error: ".
JsonErrorPrefix ==
    <<"J", "S", "O", "N", " ", "p", "a", "r", "s", "e", " ",
      "e", "r", "r", "o", "r", ":", " ">>

\* JudgeEngine._create_error_result(conversation_id, error)
CreateErrorResult(conversation_id, error) ==
    [conversation_id |-> conversation_id,
     overall_score |-> Rat(0, 1),
     dimension_scores |-> EmptyMap,
     chain_of_thought |->
        ChainOfThought(JStr(ErrorPrefix \o error), JStr(<<>>), JStr(<<>>), JStr(<<>>)),
     summary |-> JStr(FailedPrefix \o error),
     improvement_suggestions |-> JList(<<>>),
     flags |-> EvaluationFlags(JBool(TRUE), JBool(FALSE), JBool(FALSE)),
     model_name |-> "",
     rubric_version |-> "",
     processing_time_ms |-> 0,
     raw_response |-> PyNone]

\* ------------------------------------------------ JudgeEngine._parse_response
\* engine.py line 304: the weight of a parsed dimension comes from the
\* engine's rubric; a name the rubric does not have gets 0.1.
DimensionWeight(rubric, dim_name) ==
    IF dim_name \in DOMAIN rubric.dimensions
    THEN rubric.dimensions[dim_name].weight
    ELSE 10

\* Mutant of StoredWeight: the weight the model stated, where it stated one.
StatedWeight(rubric, dim_name, dim_data) ==
    IF "weight" \in DOMAIN dim_data.m /\ "h" \in DOMAIN dim_data.m["weight"]
    THEN dim_data.m["weight"].h
    ELSE DimensionWeight(rubric, dim_name)

\* The weight argument of DimensionScore(...) (lines 304-307): dim_data is
\* not consulted.
StoredWeight(rubric, dim_name, dim_data) == DimensionWeight(rubric, dim_name)

\* engine.py lines 302-310: the loop over data["dimension_scores"].
ParseDimensionScores(data, rubric) ==
    LET raw == DictGet(data, "dimension_scores", JDict(EmptyMap))
    IN IF raw.t # "dict" THEN Raised(AttributeError(raw, "items"))
       ELSE LET bad == {k \in DOMAIN raw.m : raw.m[k].t # "dict"}
            IN IF bad # {}
               THEN Raised(AttributeError(raw.m[CHOOSE k \in bad : TRUE], "get"))
               ELSE Returned(
                      [k \in DOMAIN raw.m |->
                          DimensionScore(
                              DictGet(raw.m[k], "score", JNum(30)),
                              StoredWeight(rubric, k, raw.m[k]),
                              DictGet(raw.m[k], "reasoning", JStr(<<>>)),
                              DictGet(raw.m[k], "evidence", JList(<<>>)))])

\* Mutant of OverallScore: the plain mean of score/5, weights ignored.
OverallScoreUnweighted(dimension_scores) ==
    LET names == DOMAIN dimension_scores
        bad == {k \in names : dimension_scores[k].score.t # "num"}
    IN IF names = {} THEN Returned(Rat(1, 2))
       ELSE IF bad # {}
       THEN Raised(TypeError(dimension_scores[CHOOSE k \in bad : TRUE].score))
       ELSE Returned(Rat(SumOver([k \in names |-> dimension_scores[k].score.n], names),
                         50 * Cardinality(names)))

\* engine.py lines 312-320: the weighted average of score/5, or 0.5 when
\* there is no dimension or the weights do not sum to more than 0.
OverallScore(dimension_scores) ==
    LET names == DOMAIN dimension_scores
        total_weight == SumOver([k \in names |-> dimension_scores[k].weight], names)
        bad == {k \in names : dimension_scores[k].score.t # "num"}
    IN IF names = {} THEN Returned(Rat(1, 2))
       ELSE IF total_weight <= 0 THEN Returned(Rat(1, 2))
       ELSE IF bad # {}
       THEN Raised(TypeError(dimension_scores[CHOOSE k \in bad : TRUE].score))
       ELSE Returned(
              Rat(SumOver([k \in names |->
                              dimension_scores[k].score.n * dimension_scores[k].weight],
                          names),
                  50 * total_weight))

\* engine.py lines 322-329
ParseChainOfThought(data) ==
    LET cot_data == DictGet(data, "chain_of_thought", JDict(EmptyMap))
    IN IF cot_data.t # "dict" THEN Raised(AttributeError(cot_data, "get"))
       ELSE Returned(ChainOfThought(
                DictGet(cot_data, "context_analysis", JStr(<<>>)),
                DictGet(cot_data, "response_analysis", JStr(<<>>)),
                DictGet(cot_data, "legal_check", JStr(<<>>)),
                DictGet(cot_data, "language_assessment", JStr(<<>>))))

\* Mutant of ParseFlags: flags derived from the scores alone, replacing the
\* ones the model reported.
ParseFlagsDerivedOnly(data) ==
    LET raw == DictGet(data, "dimension_scores", JDict(EmptyMap))
        low(name, limit) ==
            /\ raw.t = "dict"
            /\ name \in DOMAIN raw.m
            /\ raw.m[name].t = "dict"
            /\ "score" \in DOMAIN raw.m[name].m
            /\ raw.m[name].m["score"].t = "num"
            /\ raw.m[name].m["score"].n < limit
    IN Returned(EvaluationFlags(JBool(low("accuracy", 30)),
                                JBool(low("compliance", 50)),
                                JBool(FALSE)))

\* Mutant of ParseFlags: the flags object is required, data["flags"].
ParseFlagsRequired(data) ==
    IF "flags" \notin DOMAIN data.m THEN Raised(Exc("KeyError", <<"'flags'">>))
    ELSE IF data.m["flags"].t # "dict" THEN Raised(AttributeError(data.m["flags"], "get"))
    ELSE Returned(EvaluationFlags(
                DictGet(data.m["flags"], "critical_error", JBool(FALSE)),
                DictGet(data.m["flags"], "compliance_issue", JBool(FALSE)),
                DictGet(data.m["flags"], "escalation_needed", JBool(FALSE))))

\* engine.py lines 331-337: the flags are the ones the model reported.
ParseFlags(data) ==
    LET flags_data == DictGet(data, "flags", JDict(EmptyMap))
    IN IF flags_data.t # "dict" THEN Raised(AttributeError(flags_data, "get"))
       ELSE Returned(EvaluationFlags(
                DictGet(flags_data, "critical_error", JBool(FALSE)),
                DictGet(flags_data, "compliance_issue", JBool(FALSE)),
                DictGet(flags_data, "escalation_needed", JBool(FALSE))))

\* engine.py lines 301-351: the decoded value to an EvaluationResult.
BuildResult(data, response, conversation_id, rubric) ==
    IF data.t # "dict" THEN Raised(AttributeError(data, "get"))
    ELSE
    LET dims == ParseDimensionScores(data, rubric) IN
    IF dims.kind = "raise" THEN dims ELSE
    LET overall == OverallScore(dims.value) IN
    IF overall.kind = "raise" THEN overall ELSE
    LET cot == ParseChainOfThought(data) IN
    IF cot.kind = "raise" THEN cot ELSE
    LET flags == ParseFlags(data) IN
    IF flags.kind = "raise" THEN flags ELSE
    Returned(
        [conversation_id |-> conversation_id,
         overall_score |-> overall.value,
         dimension_scores |-> dims.value,
         chain_of_thought |-> cot.value,
         summary |-> DictGet(data, "summary", JStr(<<>>)),
         improvement_suggestions |-> DictGet(data, "improvement_suggestions", JList(<<>>)),
         flags |-> flags.value,
         model_name |-> "",
         rubric_version |-> "",
         processing_time_ms |-> 0,
         raw_response |-> JStr(response)])

\* engine.py lines 295-299: what the JSONDecodeError handler returns.
JsonErrorResult(conversation_id, e) ==
    CreateErrorResult(conversation_id, JsonErrorPrefix \o e.msg)

\* JudgeEngine._parse_response(response, conversation_id)
ParseResponse(response, conversation_id, rubric) ==
    LET loaded == JsonLoads(Strip(ExtractJson(response)))
    IN IF loaded.kind = "raise"
       THEN Returned(JsonErrorResult(conversation_id, loaded.exc))
       ELSE BuildResult(loaded.value, response, conversation_id, rubric)

\* ------------------------------------------------------ JudgeEngine.evaluate
\* JudgeConfig() with its defaults.
DefaultConfig ==
    [provider |-> "openai_compatible",
     model_name |-> "Qwen/Qwen2.5-72B-Instruct-GPTQ-Int4"]

\* Mutant of IsException: a handler that catches the HTTP errors only.
IsHttpError(e) == e.type \in {"ConnectError", "ReadTimeout", "HTTPStatusError"}

\* `except Exception` (engine.py line 166) catches every exception class but
\* the BaseException-only ones; asyncio.CancelledError is one of those.
IsException(e) == e.type # "CancelledError"

\* JudgeEngine.evaluate from the point where _call_llm has ended with `reply`
\* (the raw text, or an exception): lines 163-175.
Evaluate(conversation, reply, rubric, config, elapsed_ms) ==
    LET attempt == IF reply.kind = "raise" THEN reply
                   ELSE ParseResponse(reply.value, conversation.id, rubric)
    IN IF attempt.kind = "raise" /\ ~IsException(attempt.exc)
       THEN attempt
       ELSE LET result == IF attempt.kind = "raise"
                          THEN CreateErrorResult(conversation.id, attempt.exc.msg)
                          ELSE attempt.value
            IN Returned([result EXCEPT !.processing_time_ms = elapsed_ms,
                                       !.model_name = config.model_name,
                                       !.rubric_version = rubric.version])

\* ------------------------------------------------------------------ inputs
\* A key that the model left out of its JSON object.
Absent == [t |-> "absent"]
Opt(key, v) == IF v = Absent THEN EmptyMap ELSE (key :> v)

\* Scores the model may state, in tenths: 1, 4 and 5.
ScoreValues == {10, 40, 50}

\* Dimension names the model may use; "helpfulness" is in no rubric.
DimNames == {"accuracy", "compliance", "helpfulness"}

\* One entry of dimension_scores: a dict with a score, a dict without one,
\* a dict whose score is not a number, or something that is not a dict.
DimEntries ==
    {JDict("score" :> JNum(sc)) : sc \in ScoreValues}
    \cup {JDict(EmptyMap), JDict("score" :> JStr(<<"high">>)), JStr(<<"good">>)}

\* The dimension_scores value of a reply.
DimensionScoresValues ==
    {Absent, JList(<<>>)}
    \cup UNION {{JDict(f) : f \in [S -> DimEntries]} :
                   S \in {T \in SUBSET DimNames : Cardinality(T) <= MaxDims}}

FlagNames == {"critical_error", "compliance_issue", "escalation_needed"}

\* The flags value of a reply: the flags in T reported true and the others
\* left out, all three reported false, no flags at all, or not a dict.
FlagsValues ==
    {Absent, JNull, JDict([k \in FlagNames |-> JBool(FALSE)])}
    \cup {JDict([k \in T |-> JBool(TRUE)]) : T \in (SUBSET FlagNames) \ {{}}}

\* The chain_of_thought value of a reply.
ChainOfThoughtValues ==
    {Absent, JStr(<<"The customer asks for a refund.">>),
     JDict("context_analysis" :> JStr(<<"The customer asks for a refund.">>))}

\* The JSON objects a model may answer with.
ReplyObjects ==
    {JDict(Opt("dimension_scores", ds) @@ Opt("chain_of_thought", cot)
           @@ Opt("flags", fl) @@ ("summary" :> JStr(<<"Good quality response">>))) :
        ds \in DimensionScoresValues, cot \in ChainOfThoughtValues, fl \in FlagsValues}

\* A JSON number with two decimals, in hundredths (8.05 is 805); the parser
\* reads no such number, the test replies carry them.
JNum100(n) == [t |-> "num", h |-> n]

\* One dimension_scores entry as the test replies write it.
TestDimension(score, weight, reasoning, evidence) ==
    JDict(("score" :> JNum(score)) @@ ("weight" :> JNum100(weight))
          @@ ("reasoning" :> JStr(reasoning)) @@ ("evidence" :> JList(evidence)))

\* The reply of the mock_llm_response fixture: the six default dimensions
\* scored 8, 7.5, 9, 8, 8.5 and 7, and a stated overall_score of 8.05.
MockLlmResponse ==
    JDict(("conversation_id" :> JStr(<<"TEST-001">>))
          @@ ("chain_of_thought" :>
                 JDict(("context_analysis" :> JStr(<<"Test context analysis">>))
                       @@ ("response_analysis" :> JStr(<<"Test response analysis">>))
                       @@ ("legal_check" :> JStr(<<"Test legal check">>))
                       @@ ("language_assessment" :> JStr(<<"Test language assessment">>))))
          @@ ("dimension_scores" :>
                 JDict(("accuracy" :> TestDimension(80, 25, <<"Good accuracy">>,
                                                    <<JStr(<<"Example 1">>)>>))
                       @@ ("tone" :> TestDimension(75, 20, <<"Good tone">>,
                                                   <<JStr(<<"Example 2">>)>>))
                       @@ ("compliance" :> TestDimension(90, 20, <<"Excellent compliance">>, <<>>))
                       @@ ("completeness" :> TestDimension(80, 15, <<"Complete">>, <<>>))
                       @@ ("language_quality" :> TestDimension(85, 10, <<"Good German">>, <<>>))
                       @@ ("efficiency" :> TestDimension(70, 10, <<"Efficient">>, <<>>))))
          @@ ("overall_score" :> JNum100(805))
          @@ ("summary" :> JStr(<<"Good quality response">>))
          @@ ("improvement_suggestions" :> JList(<<JStr(<<"Could be more empathetic">>)>>))
          @@ ("flags" :> JDict([k \in FlagNames |-> JBool(FALSE)])))

\* The scores of test_weighted_score_calculation, 10, 8, 9, 7, 8 and 8, as
\* a reply: the parser holds the engine's only weighted-score calculation.
WeightedScoreResponse ==
    JDict("dimension_scores" :>
             JDict(("accuracy" :> TestDimension(100, 25, <<>>, <<>>))
                   @@ ("tone" :> TestDimension(80, 20, <<>>, <<>>))
                   @@ ("compliance" :> TestDimension(90, 20, <<>>, <<>>))
                   @@ ("completeness" :> TestDimension(70, 15, <<>>, <<>>))
                   @@ ("language_quality" :> TestDimension(80, 10, <<>>, <<>>))
                   @@ ("efficiency" :> TestDimension(80, 10, <<>>, <<>>))))

\* The reply of test_missing_fields_in_response: no optional field at all.
IncompleteResponse ==
    JDict(("conversation_id" :> JStr(<<"TEST-001">>)) @@ ("overall_score" :> JNum(50)))

TestReplies == {MockLlmResponse, WeightedScoreResponse, IncompleteResponse}

\* Valid JSON that is not an object.
NonObjects == {JList(<<>>), JNull, JNum(40), JStr(<<"excellent">>)}

\* Replies that do not decode: no JSON at all, nothing, JSON followed by
\* prose, a fenced block without JSON in it.
Undecodable ==
    {<<Prose("invalid json {{{")>>,
     <<>>,
     <<JsonDoc(JDict(EmptyMap)), Ws, Prose("I hope this helps.")>>,
     <<FenceJson, Ws, Prose("see above"), Ws, Fence>>}

\* The raw texts a model call may return: a bare document, a document in a
\* ```json fence after some prose, a document in a bare fence.
ReplyTexts ==
    {<<JsonDoc(d)>> : d \in ReplyObjects \cup NonObjects}
    \cup {<<Prose("Here is my evaluation:"), Ws, FenceJson, Ws, JsonDoc(d), Ws, Fence>> :
             d \in ReplyObjects}
    \cup {<<Fence, Ws, JsonDoc(d), Ws, Fence, Ws, Prose("Done.")>> : d \in NonObjects}
    \cup {<<JsonDoc(d)>> : d \in TestReplies}
    \cup Undecodable

\* How a model call fails (engine.py lines 255-259 and 280-284): no
\* connection, a timeout, a non-2xx status, a body that is not JSON, an
\* envelope without the expected keys.
ModelCallFailures ==
    {Exc("ConnectError", <<"All connection attempts failed">>),
     Exc("ReadTimeout", <<>>),
     Exc("HTTPStatusError", <<"Server error '503 Service Unavailable'">>),
     Exc("JSONDecodeError", <<"Expecting value: line 1 column 1 (char 0)">>),
     Exc("KeyError", <<"'choices'">>)}

\* engine.py line 227: _call_llm without an open client.
NoClientError ==
    Exc("RuntimeError", <<"JudgeEngine must be used as async context manager">>)

\* The task running the call is cancelled while it awaits the reply.
Cancelled == Exc("CancelledError", <<>>)

\* Conversations handed to the engine; ConvId(i) is the id of the i-th.
ConvId(i) == <<"CONV", i>>
Conversation(i) == [id |-> ConvId(i), category |-> "retoure"]

\* Wall-clock milliseconds an evaluation takes (one representative value).
ElapsedMs == {250}

\* ------------------------------------------------------------------- state
VARIABLES
    rubric,         \* JudgeEngine.rubric
    client,         \* JudgeEngine._client: "none" or "open"
    ev_pc,          \* a single evaluate() call: "idle", "calling", "done"
    ev_conv,        \* the conversation it was given
    ev_reply,       \* what _call_llm ended with
    ev_out,         \* what evaluate() ended with
    p_in,           \* a direct _parse_response call: its raw text and id
    p_out,          \* ... and what it ended with
    b_pc,           \* evaluate_batch: "idle", "running", "returned"
    convs,          \* its `conversations` argument
    concurrency,    \* its `concurrency` argument
    few_shot,       \* its `include_few_shot` argument
    has_callback,   \* whether a progress_callback was supplied
    sem,            \* the semaphore's value (free permits)
    waiters,        \* tasks blocked in semaphore.acquire, oldest first
    tstate,         \* per task: "new", "waiting", "woken", "inflight", "done"
    targs,          \* per task: the include_few_shot it passed to evaluate
    tresult,        \* per task: the result it returned
    completed,      \* the `completed` counter
    progress,       \* the progress_callback invocations so far, in order
    finished,       \* task indexes in the order the tasks completed
    requests,       \* model calls issued by the batch so far
    results         \* what evaluate_batch returned

evalVars == <<ev_pc, ev_conv, ev_reply, ev_out, p_in, p_out>>
batchVars == <<b_pc, convs, concurrency, few_shot, has_callback, sem, waiters,
               tstate, targs, tresult, completed, progress, finished, requests,
               results>>

VARIABLES
    l_files,        \* the configs directory: rubric name -> state of <name>.json
    l_cache,        \* RubricLoader._cache
    l_objs,         \* Rubric objects _load_from_file has created so far
    l_changes,      \* changes made to the configs directory so far
    l_loads,        \* load() calls made so far
    l_last,         \* the last load(): name, file state, outcome, path taken
    l_pinned,       \* per name: the first instance load() cached and returned
    l_created,      \* the last RubricCreate(...): weights and outcome
    l_cat           \* the last get_dimensions_for_category call

VARIABLES
    lt_client,      \* LanguageToolIntegration._client: "none" or "open"
    lt_pc,          \* one enhance_evaluation call: "idle", "checking", "done"
    lt_in,          \* its arguments: the result as passed in, and the text
    lt_reply,       \* how the POST to the checker ended
    lt_out          \* what enhance_evaluation ended with

VARIABLES
    m_pairs,        \* the (judge, human) pairs in the database: kind -> count
    m_dim_order,    \* dimension keys in the order the pairs first show them
    m_report        \* what the last calculate_metrics() over them returned

VARIABLES
    g_call          \* one calculate_metrics() over a given database: pairs, report

VARIABLES
    j_status,       \* EvaluationJob.status as committed in the database
    j_total,        \* EvaluationJob.total_conversations
    j_batch_size,   \* EvaluationJob.batch_size
    j_completed,    \* EvaluationJob.completed_conversations, as committed
    j_failed,       \* EvaluationJob.failed_conversations, as committed
    j_evals,        \* per conversation: committed Evaluation rows of this job
    db_convs,       \* conversations the job's query matches (1..db_convs)
    w_pc,           \* the Celery task: "none", "queued", "fetch", "item",
                    \*   "returned", "raised", "dead"
    w_retries,      \* task.request.retries
    w_offset,       \* the worker's `offset`
    w_batch,        \* the rest of the fetched `conversations`
    w_completed,    \* the worker's `completed`
    w_failed,       \* the worker's `failed`
    w_session,      \* the worker's database session: "active" or "inactive"
    w_log,          \* how each item of this run of the task ended, in order
    backend_failures, \* update_state calls that have raised so far
    c_pc,           \* one cancel_job request: "none", "checked", "done", "rejected"
    revoked         \* whether the task id is on the workers' revoked list

VARIABLES
    s_pc,           \* one EvaluationService call: "idle", "entered", "evaluated",
                    \*   "exited", "returned", "raised"
    s_call,         \* which method, and its arguments and settings
    s_engine,       \* the HTTP client of its JudgeEngine: "none", "open", "closed"
    s_lt,           \* the HTTP client of its LanguageToolIntegration, likewise
    s_out           \* how the call ended
VARIABLES
    q_pc,           \* one evaluate() call with its prompts: "idle", "calling", "done"
    q_args,         \* its arguments
    q_requests,     \* the requests it has sent to the model API, in order
    q_out           \* what it returned
metaVars == <<m_pairs, m_dim_order, m_report>>
toolVars == <<lt_client, lt_pc, lt_in, lt_reply, lt_out>>
loaderVars == <<l_files, l_cache, l_objs, l_changes, l_loads, l_last, l_pinned, l_created, l_cat>>
reportVars == <<g_call>>
jobVars == <<j_status, j_total, j_batch_size, j_completed, j_failed, j_evals,
             db_convs, w_pc, w_retries, w_offset, w_batch, w_completed, w_failed,
             w_session, w_log, backend_failures, c_pc, revoked>>
svcVars == <<s_pc, s_call, s_engine, s_lt, s_out>>
callVars == <<q_pc, q_args, q_requests, q_out>>
moreVars == <<reportVars, jobVars, svcVars, callVars>>
serviceVars == <<loaderVars, toolVars, metaVars, moreVars>>
engineVars == <<rubric, client, evalVars, batchVars>>
vars == <<rubric, client, evalVars, batchVars, serviceVars>>
restOfReport == <<engineVars, loaderVars, toolVars, metaVars, jobVars, svcVars, callVars>>
restOfJob == <<engineVars, loaderVars, toolVars, metaVars, reportVars, svcVars, callVars>>
restOfSvc == <<engineVars, loaderVars, toolVars, metaVars, reportVars, jobVars, callVars>>
restOfCall == <<rubric, client, evalVars, batchVars, loaderVars, toolVars, metaVars, reportVars, jobVars, svcVars>>

\* No value yet.
Nothing == [kind |-> "none"]

EvalIdle ==
    /\ ev_pc = "idle"
    /\ ev_conv = Nothing
    /\ ev_reply = Nothing
    /\ ev_out = Nothing
    /\ p_in = Nothing
    /\ p_out = Nothing

BatchIdle ==
    /\ b_pc = "idle"
    /\ convs = <<>>
    /\ concurrency = 0
    /\ few_shot = FALSE
    /\ has_callback = FALSE
    /\ sem = 0
    /\ waiters = <<>>
    /\ tstate = <<>>
    /\ targs = <<>>
    /\ tresult = <<>>
    /\ completed = 0
    /\ progress = <<>>
    /\ finished = <<>>
    /\ requests = 0
    /\ results = <<>>

\* ------------------------------------------------------------ RubricLoader
\* The most load() calls and directory changes one loader sees.
MaxLoads == 3
MaxFileChanges == 2

\* The state of <configs-dir>/<name>.json: no such file, a file that cannot
\* be opened, or a file with some text in it.
FileAbsent == [kind |-> "absent"]
FileUnreadable == [kind |-> "unreadable"]
FileText(text) == [kind |-> "text", text |-> text]

\* A rubric file whose _load_from_file result is FILE_RUBRIC.
StrictComplianceFile ==
    JDict(("name" :> JStr(<<"strict_compliance">>))
          @@ ("version" :> JStr(<<"2.0.0">>))
          @@ ("dimensions" :>
                 JDict(("accuracy" :> JDict(("name" :> JStr(<<"Accuracy">>))
                                            @@ ("weight" :> JNum100(0))))
                       @@ ("tone" :> JDict(("name" :> JStr(<<"Tone">>))
                                           @@ ("weight" :> JNum100(50))))
                       @@ ("compliance" :> JDict(("name" :> JStr(<<"Compliance">>))
                                                 @@ ("weight" :> JNum100(50)))))))

\* A rubric file with two dimensions, one of weight 0.5 and one without a
\* weight; it states neither a name nor a version.
LightFile ==
    JDict("dimensions" :>
             JDict(("accuracy" :> JDict("weight" :> JNum100(50)))
                   @@ ("tone" :> JDict(EmptyMap))))

\* A rubric file whose scoring_guidelines are keyed by words, not by scores.
BadGuidelinesFile ==
    JDict("dimensions" :>
             JDict("accuracy" :>
                      JDict(("weight" :> JNum100(100))
                            @@ ("scoring_guidelines" :>
                                   JDict("excellent" :> JStr(<<"No factual errors">>))))))

\* The states a rubric file may be in.
FileStates ==
    {FileAbsent, FileUnreadable,
     FileText(<<Prose("dimensions: accuracy, tone")>>),
     FileText(<<JsonDoc(JList(<<>>))>>),
     FileText(<<JsonDoc(BadGuidelinesFile)>>),
     FileText(<<JsonDoc(LightFile)>>),
     FileText(<<JsonDoc(StrictComplianceFile)>>)}

\* The rubric names load() is called with.
RubricNames == {"default_rubric", "strict_compliance"}

\* A Rubric object: which object it is, and what it holds.  DEFAULT_RUBRIC
\* is the one module-level object, numbered 0.
Instance(obj, r) == [obj |-> obj, rubric |-> r]
DefaultInstance == Instance(0, DEFAULT_RUBRIC)

\* int(k) succeeds on the keys "1" .. "5" of scoring_guidelines.
IntKeys == {"1", "2", "3", "4", "5"}

\* rubric_loader.py lines 174-183: one RubricDimension from the file's
\* entry, or the exception the entry causes.
LoadDimension(dim_name, dim_data) ==
    IF dim_data.t # "dict" THEN Raised(AttributeError(dim_data, "get"))
    ELSE LET guidelines == DictGet(dim_data, "scoring_guidelines", JDict(EmptyMap))
         IN IF guidelines.t # "dict" THEN Raised(AttributeError(guidelines, "items"))
            ELSE IF DOMAIN guidelines.m \ IntKeys # {}
            THEN Raised(Exc("ValueError", <<"invalid literal for int() with base 10">>))
            ELSE Returned(RubricDimension(
                     Head(DictGet(dim_data, "name", JStr(<<dim_name>>)).s),
                     DictGet(dim_data, "weight", JNum100(10)).h))

\* RubricLoader._load_from_file(path), path being <stem>.json in state
\* `file`: the Rubric it builds, or the exception it raises.
LoadFromFile(file, stem) ==
    IF file.kind = "unreadable"
    THEN Raised(Exc("PermissionError", <<"[Errno 13] Permission denied">>))
    ELSE
    LET loaded == JsonLoads(file.text) IN
    IF loaded.kind = "raise" THEN loaded ELSE
    LET data == loaded.value IN
    IF data.t # "dict" THEN Raised(AttributeError(data, "get")) ELSE
    LET dims == DictGet(data, "dimensions", JDict(EmptyMap)) IN
    IF dims.t # "dict" THEN Raised(AttributeError(dims, "items")) ELSE
    LET built == [k \in DOMAIN dims.m |-> LoadDimension(k, dims.m[k])]
        bad == {k \in DOMAIN dims.m : built[k].kind = "raise"}
    IN IF bad # {} THEN built[CHOOSE k \in bad : TRUE]
       ELSE Returned(
              [name |-> Head(DictGet(data, "name", JStr(<<stem>>)).s),
               version |-> Head(DictGet(data, "version", JStr(<<"1.0.0">>)).s),
               dimensions |-> [k \in DOMAIN dims.m |-> built[k].value],
               few_shot_examples |-> DictGet(data, "few_shot_examples", JList(<<>>)).l,
               calibration_notes |-> DictGet(data, "calibration_notes", JStr(<<>>)).s])

\* Mutant of CacheLookup: the cache is never consulted.
CacheLookupNever(cache, rubric_name) == Nothing

\* rubric_loader.py lines 146-147: the cached rubric, if there is one.
CacheLookup(cache, rubric_name) ==
    IF rubric_name \in DOMAIN cache THEN cache[rubric_name] ELSE Nothing

\* self._cache[rubric_name] = instance
CacheStore(cache, rubric_name, instance) ==
    [n \in DOMAIN cache \cup {rubric_name} |->
        IF n = rubric_name THEN instance ELSE cache[n]]

\* rubric_file.exists()
FileExists(file) == file.kind # "absent"

\* Mutant of TryLoadFromFile: only a JSONDecodeError is handled.
TryLoadFromFileJsonOnly(file, stem) ==
    LET r == LoadFromFile(file, stem)
    IN IF r.kind = "raise" /\ r.exc.type = "JSONDecodeError" THEN Nothing ELSE r

\* rubric_loader.py lines 155-160: _load_from_file under `except Exception`;
\* Nothing when the exception was logged and load() goes on to the fallback.
TryLoadFromFile(file, stem) ==
    LET r == LoadFromFile(file, stem)
    IN IF r.kind = "raise" /\ IsException(r.exc) THEN Nothing ELSE r

\* RubricLoader.load(rubric_name) with the cache, the directory and the
\* object count as they are: the outcome, the path taken, and the cache and
\* object count afterwards.
Load(rubric_name, cache, files, objs) ==
    LET hit == CacheLookup(cache, rubric_name)
        read == TryLoadFromFile(files[rubric_name], rubric_name)
        fallback == [out |-> Returned(DefaultInstance), how |-> "fallback",
                     cache |-> cache, objs |-> objs]
    IN IF hit # Nothing
       THEN [out |-> Returned(hit), how |-> "cache", cache |-> cache, objs |-> objs]
       ELSE IF rubric_name = "default_rubric"
       THEN [out |-> Returned(DefaultInstance), how |-> "default",
             cache |-> CacheStore(cache, rubric_name, DefaultInstance), objs |-> objs]
       ELSE IF ~FileExists(files[rubric_name]) THEN fallback
       ELSE IF read = Nothing THEN fallback
       ELSE IF read.kind = "raise"
       THEN [out |-> read, how |-> "file", cache |-> cache, objs |-> objs]
       ELSE [out |-> Returned(Instance(objs + 1, read.value)), how |-> "file",
             cache |-> CacheStore(cache, rubric_name, Instance(objs + 1, read.value)),
             objs |-> objs + 1]

\* The weights a RubricCreate request may state, in hundredths.
CreateWeights == {0, 49, 50, 51, 120}

\* The sum of a list of weights.
TotalWeight(ws) == SumOver(ws, DOMAIN ws)

\* schemas/evaluation.py lines 315-319: RubricCreate.validate_weights
ValidateWeights(v) ==
    IF ~(99 <= TotalWeight(v) /\ TotalWeight(v) <= 101)
    THEN Raised(Exc("ValueError", <<"Dimension weights must sum to 1.0">>))
    ELSE Returned(v)

\* RubricCreate(dimensions = ...): each weight is checked against
\* Field(ge=0, le=1) (line 300), then validate_weights runs on the list.
RubricCreate(ws) ==
    IF \E i \in DOMAIN ws : ~(0 <= ws[i] /\ ws[i] <= 100)
    THEN Raised(Exc("ValidationError", <<"Input should be less than or equal to 1">>))
    ELSE ValidateWeights(ws)

\* The attributes the class RubricLoader defines.
RubricLoaderAttrs ==
    {"__init__", "load", "_load_from_file", "list_available", "rubrics_dir", "_cache"}

\* loader.<attr>: the attribute, or the AttributeError of the lookup.
LoaderGetAttr(attr) ==
    IF attr \in RubricLoaderAttrs THEN Returned(attr)
    ELSE Raised(Exc("AttributeError",
                    <<"'RubricLoader' object has no attribute '", attr, "'">>))

\* RubricLoader(): an empty cache, over a configs directory without files.
LoaderInit ==
    /\ l_files = [n \in RubricNames |-> FileAbsent]
    /\ l_cache = <<>>
    /\ l_objs = 0
    /\ l_changes = 0
    /\ l_loads = 0
    /\ l_last = Nothing
    /\ l_pinned = [n \in RubricNames |-> Nothing]
    /\ l_created = Nothing
    /\ l_cat = Nothing

\* LanguageToolIntegration(base_url): no client yet, no call made.
ToolInit ==
    /\ lt_client = "none"
    /\ lt_pc = "idle"
    /\ lt_in = Nothing
    /\ lt_reply = Nothing
    /\ lt_out = Nothing

\* ------------------------------------------------------ MetaEvaluationService
\* The most (judge, human) pairs the database holds.
MaxPairs == 11

\* The kinds of pair in the database: the judge's and the human's overall
\* score (in tenths) and the dimension keys for which both gave a score, in
\* the order of the judge's dimension_scores.
PairKinds ==
    {[judge_overall |-> 8, human_overall |-> 80, dims |-> <<"accuracy", "tone">>],
     [judge_overall |-> 2, human_overall |-> 90, dims |-> <<"tone">>],
     [judge_overall |-> 5, human_overall |-> 50, dims |-> <<>>]}

\* MetaEvaluationService(db): a database without annotated evaluations.
MetaInit ==
    /\ m_pairs = [k \in PairKinds |-> 0]
    /\ m_dim_order = <<>>
    /\ m_report = Nothing

\* ----------------------------------------------- batch job: routes and worker
\* The most conversations the job's query matches, and the most calls of
\* task.update_state that fail.
MaxJobConvs == 3
MaxBackendFailures == 1

\* @celery_app.task(bind=True, max_retries=3)
max_retries == 3

\* JobCreate.batch_size (schemas/evaluation.py line 157: at least 1).
BatchSizes == {1, 2}

\* How service.evaluate_conversation() ends for one conversation (tasks.py
\* lines 131-142): it returns the flushed Evaluation; it raises before it
\* touches the session (_build_user_prompt, engine.py line 127, on a message
\* whose role is null); or db.flush() raises (evaluation_service.py line
\* 152, on a reply whose "summary" is null: the column is NOT NULL).
ItemOutcomes == {"stored", "raised", "flush_failed"}

\* The worker's session after the item: an exception out of flush() leaves
\* the session's transaction inactive until rollback() is called, and the
\* worker never calls it.
SessionAfter(outcome, session) ==
    IF outcome = "flush_failed" THEN "inactive" ELSE session

\* Whether `await db.commit()` raises (PendingRollbackError).
CommitRaises(session) == session = "inactive"

\* No job yet.
JobInit ==
    /\ j_status = "none"
    /\ j_total = 0
    /\ j_batch_size = 0
    /\ j_completed = 0
    /\ j_failed = 0
    /\ j_evals = [c \in 1..MaxJobConvs |-> 0]
    /\ db_convs = 0
    /\ w_pc = "none"
    /\ w_retries = 0
    /\ w_offset = 0
    /\ w_batch = <<>>
    /\ w_completed = 0
    /\ w_failed = 0
    /\ w_session = "active"
    /\ w_log = <<>>
    /\ backend_failures = 0
    /\ c_pc = "none"
    /\ revoked = FALSE

\* ------------------------------------------------------- EvaluationService
\* EvaluationService(db): no call yet.
SvcInit ==
    /\ s_pc = "idle"
    /\ s_call = Nothing
    /\ s_engine = "none"
    /\ s_lt = "none"
    /\ s_out = Nothing

\* No evaluate() call yet.
CallInit ==
    /\ q_pc = "idle"
    /\ q_args = Nothing
    /\ q_requests = <<>>
    /\ q_out = Nothing

\* JudgeEngine(config, rubric): the engine right after construction.
Init ==
    /\ rubric \in Rubrics
    /\ client = "none"
    /\ EvalIdle
    /\ BatchIdle
    /\ LoaderInit
    /\ ToolInit
    /\ MetaInit
    /\ g_call = Nothing
    /\ JobInit
    /\ SvcInit
    /\ CallInit

\* JudgeEngine.__aenter__
AEnter ==
    /\ client = "none"
    /\ ev_pc = "idle" /\ b_pc = "idle" /\ p_out = Nothing
    /\ client' = "open"
    /\ UNCHANGED <<serviceVars, rubric, evalVars, batchVars>>

\* JudgeEngine.__aexit__
AExit ==
    /\ client = "open"
    /\ ev_pc \in {"idle", "done"} /\ b_pc \in {"idle", "returned"}
    /\ q_pc \in {"idle", "done"}
    /\ client' = "none"
    /\ UNCHANGED <<serviceVars, rubric, evalVars, batchVars>>

\* evaluate(conversation): prompts built, _call_llm entered (lines 158-164).
EvaluateStart ==
    /\ ev_pc = "idle" /\ p_out = Nothing /\ b_pc = "idle"
    /\ \E i \in 1..2 : ev_conv' = Conversation(i)
    /\ ev_pc' = "calling"
    /\ UNCHANGED <<serviceVars, rubric, client, ev_reply, ev_out, p_in, p_out, batchVars>>

\* How the pending evaluate() ends once _call_llm has ended with `reply`.
EvaluateEnd(reply) ==
    /\ ev_reply' = reply
    /\ \E ms \in ElapsedMs :
           ev_out' = Evaluate(ev_conv, reply, rubric, DefaultConfig, ms)
    /\ ev_pc' = "done"
    /\ UNCHANGED <<serviceVars, rubric, client, ev_conv, p_in, p_out, batchVars>>

\* The model API answers with a text.
CallReturns ==
    /\ ev_pc = "calling" /\ client = "open"
    /\ \E text \in ReplyTexts : EvaluateEnd(Returned(text))

\* The model call fails, or there is no client to make it with.
CallFails ==
    /\ ev_pc = "calling"
    /\ \E e \in (IF client = "open" THEN ModelCallFailures ELSE {NoClientError}) :
           EvaluateEnd(Raised(e))

\* The awaiting task is cancelled from outside.
CallCancelled ==
    /\ ev_pc = "calling" /\ client = "open"
    /\ EvaluateEnd(Raised(Cancelled))

\* A direct call of _parse_response(text, id), as the tests make it.
ParseCall ==
    /\ ev_pc = "idle" /\ p_out = Nothing /\ b_pc = "idle"
    /\ \E text \in ReplyTexts, i \in 1..2 :
           /\ p_in' = [text |-> text, conversation_id |-> ConvId(i)]
           /\ p_out' = ParseResponse(text, ConvId(i), rubric)
    /\ UNCHANGED <<serviceVars, rubric, client, ev_pc, ev_conv, ev_reply, ev_out, batchVars>>

NextEval ==
    \/ AEnter
    \/ AExit
    \/ EvaluateStart
    \/ CallReturns
    \/ CallFails
    \/ CallCancelled
    \/ ParseCall

\* One engine, single evaluations and direct parser calls.
SpecEval == Init /\ [][NextEval]_vars

\* ------------------------------------------------ JudgeEngine.evaluate_batch
\* What a model call made by a batch task may end with.
BatchReplies ==
    {Returned(<<JsonDoc(JDict("dimension_scores" :>
                   JDict("accuracy" :> JDict("score" :> JNum(40)))))>>),
     Returned(<<Prose("invalid json {{{")>>),
     Raised(Exc("ReadTimeout", <<>>))}

\* Mutant of SemLocked: a semaphore that never blocks.
SemNeverLocked == FALSE

\* asyncio.Semaphore.locked(): no free permit, or somebody is queued.
SemLocked == sem = 0 \/ waiters # <<>>

\* Mutant of Gather: the results in the order the tasks completed.
GatherByCompletion(task_results, completion_order) ==
    [j \in 1..Len(completion_order) |-> task_results[completion_order[j]]]

\* asyncio.gather(*tasks): the tasks' results in the order of the task list.
Gather(task_results, completion_order) == task_results

\* Mutant of CallbackArgs: the task's position reported instead of the count.
CallbackArgsByIndex(idx, done_count, total) == <<idx, total>>

\* The arguments of one progress_callback invocation (engine.py line 213).
CallbackArgs(idx, done_count, total) == <<done_count, total>>

\* semaphore.release() followed by Semaphore._wake_up_next(), with `value`
\* free permits before the release: the permit goes to the oldest waiter
\* that has not been woken yet, if there is one.
ReleaseAndWake(i, value) ==
    LET sleeping == {k \in 1..Len(waiters) : tstate[waiters[k]] = "waiting"}
    IN IF sleeping = {}
       THEN /\ sem' = value + 1
            /\ tstate' = [tstate EXCEPT ![i] = "done"]
       ELSE LET k == CHOOSE x \in sleeping : \A y \in sleeping : x <= y
            IN /\ sem' = value
               /\ tstate' = [tstate EXCEPT ![i] = "done", ![waiters[k]] = "woken"]

\* Task i, holding a permit (`value` permits are free), gets `reply` from its
\* model call: evaluate() returns, the counter and the callback run, the
\* permit is released (engine.py lines 206-214).  No suspension point lies
\* in between.
TaskCompletes(i, reply, value) ==
    /\ \E ms \in ElapsedMs :
           tresult' = [tresult EXCEPT ![i] =
               Evaluate(Conversation(convs[i]), reply, rubric, DefaultConfig, ms).value]
    /\ completed' = completed + 1
    /\ progress' = IF has_callback
                   THEN Append(progress, CallbackArgs(i, completed + 1, Len(convs)))
                   ELSE progress
    /\ finished' = Append(finished, i)
    /\ ReleaseAndWake(i, value)

\* Mutant of FewShotArg: the caller's request passed on to every task.
FewShotArgForAll(include_few_shot, idx) == include_few_shot

\* engine.py line 209: the include_few_shot argument of the evaluate() call
\* for the conversation at (0-based) input position idx.
FewShotArg(include_few_shot, idx) == include_few_shot /\ idx = 0

\* Task i, holding a permit, calls evaluate() (lines 206-210): the request
\* goes out and the task suspends until the reply.
TaskEnters(i) ==
    /\ targs' = [targs EXCEPT ![i] = FewShotArg(few_shot, i - 1)]
    /\ tstate' = [tstate EXCEPT ![i] = "inflight"]
    /\ requests' = requests + 1

\* evaluate_batch(conversations, ...) up to asyncio.gather (lines 198-220).
BatchStart ==
    /\ b_pc = "idle" /\ ev_pc = "idle" /\ p_out = Nothing
    /\ \E n \in 0..MaxConvs, reversed \in BOOLEAN :
           convs' = [i \in 1..n |-> IF reversed THEN n + 1 - i ELSE i]
    /\ concurrency' \in 1..MaxConcurrency
    /\ few_shot' \in BOOLEAN
    /\ has_callback' \in BOOLEAN
    /\ sem' = concurrency'
    /\ waiters' = <<>>
    /\ tstate' = [i \in 1..Len(convs') |-> "new"]
    /\ targs' = [i \in 1..Len(convs') |-> FALSE]
    /\ tresult' = [i \in 1..Len(convs') |-> Nothing]
    /\ completed' = 0
    /\ progress' = <<>>
    /\ finished' = <<>>
    /\ requests' = 0
    /\ results' = <<>>
    /\ b_pc' = "running"
    /\ UNCHANGED <<serviceVars, rubric, client, evalVars>>

\* The event loop runs task i for the first time (tasks start in the order
\* gather created them): `async with semaphore`.
TaskStart(i) ==
    /\ b_pc = "running"
    /\ tstate[i] = "new"
    /\ \A j \in 1..(i - 1) : tstate[j] # "new"
    /\ IF SemLocked
       THEN /\ waiters' = Append(waiters, i)
            /\ tstate' = [tstate EXCEPT ![i] = "waiting"]
            /\ UNCHANGED <<sem, targs, tresult, completed, progress, finished, requests>>
       ELSE /\ client = "open"
            /\ sem' = sem - 1
            /\ TaskEnters(i)
            /\ UNCHANGED <<waiters, tresult, completed, progress, finished>>
    /\ UNCHANGED <<serviceVars, rubric, client, evalVars, b_pc, convs, concurrency, few_shot,
                   has_callback, results>>

\* The same first run when the engine has no client: the task takes a
\* permit, fails inside evaluate() and releases the permit, all in one go.
TaskStartNoClient(i) ==
    /\ b_pc = "running"
    /\ tstate[i] = "new"
    /\ \A j \in 1..(i - 1) : tstate[j] # "new"
    /\ ~SemLocked
    /\ client = "none"
    /\ targs' = [targs EXCEPT ![i] = FewShotArg(few_shot, i - 1)]
    /\ TaskCompletes(i, Raised(NoClientError), sem - 1)
    /\ UNCHANGED <<serviceVars, rubric, client, evalVars, b_pc, convs, concurrency, few_shot,
                   has_callback, results, waiters, requests>>

\* A woken waiter resumes inside acquire(), leaves the queue and goes on
\* into the `async with` body.  (Tasks only ever wait while the client is
\* open: without a client no task suspends with a permit in hand.)
TaskResume(i) ==
    /\ b_pc = "running"
    /\ tstate[i] = "woken"
    /\ client = "open"
    /\ waiters' = SelectSeq(waiters, LAMBDA w : w # i)
    /\ TaskEnters(i)
    /\ UNCHANGED <<serviceVars, rubric, client, evalVars, b_pc, convs, concurrency, few_shot,
                   has_callback, results, sem, tresult, completed, progress, finished>>

\* The model call of task i ends, with a text or with a failure.
TaskReply(i) ==
    /\ b_pc = "running"
    /\ tstate[i] = "inflight"
    /\ \E reply \in BatchReplies : TaskCompletes(i, reply, sem)
    /\ UNCHANGED <<serviceVars, rubric, client, evalVars, b_pc, convs, concurrency, few_shot,
                   has_callback, results, waiters, targs, requests>>

\* Every task is done: gather hands the results back (lines 220-222).
BatchReturn ==
    /\ b_pc = "running"
    /\ \A i \in 1..Len(convs) : tstate[i] = "done"
    /\ results' = Gather(tresult, finished)
    /\ b_pc' = "returned"
    /\ UNCHANGED <<serviceVars, rubric, client, evalVars, convs, concurrency, few_shot,
                   has_callback, sem, waiters, tstate, targs, tresult, completed,
                   progress, finished, requests>>

Next ==
    \/ AEnter
    \/ AExit
    \/ BatchStart
    \/ \E i \in 1..Len(convs) : TaskStart(i)
    \/ \E i \in 1..Len(convs) : TaskStartNoClient(i)
    \/ \E i \in 1..Len(convs) : TaskResume(i)
    \/ \E i \in 1..Len(convs) : TaskReply(i)
    \/ BatchReturn

\* One engine, one evaluate_batch call.
Spec == Init /\ [][Next]_vars

\* ------------------------------------------------------- claims: the batch
InFlight == {i \in 1..Len(convs) : tstate[i] = "inflight"}
InOrder(seq) == \A j \in 1..Len(seq) : seq[j] = j

\* C1: evaluate_batch over N conversations returns exactly N results, and the
\* result at position i carries the id of the conversation at position i,
\* whatever order the model calls completed in.
C1_ResultsInInputOrder ==
    b_pc = "returned" =>
        /\ Len(results) = Len(convs)
        /\ \A i \in 1..Len(convs) : results[i].conversation_id = ConvId(convs[i])

\* A batch has returned whose calls completed out of input order.
C1_Witness ==
    /\ b_pc = "returned"
    /\ Len(convs) >= 2
    /\ ~InOrder(finished)
    /\ Len(results) = Len(convs)

\* C2: at every moment the number of conversations whose model call is in
\* flight inside the semaphore is at most `concurrency`; counting the permit
\* a woken waiter already holds, permits held plus permits free is constant.
C2_BoundedInFlight ==
    /\ Cardinality(InFlight) <= concurrency
    /\ sem >= 0
    /\ b_pc = "running" =>
          sem + Cardinality({i \in 1..Len(convs) : tstate[i] \in {"inflight", "woken"}})
              = concurrency

\* Every permit is taken and a further task is queued behind them.
C2_Witness ==
    /\ b_pc = "running"
    /\ Cardinality(InFlight) = concurrency
    /\ \E i \in 1..Len(convs) : tstate[i] = "waiting"

\* C3: with a progress_callback, it is invoked exactly once per completed
\* conversation, the k-th invocation with (k, N); so the last one, made by the
\* time the batch returns, is (N, N).  Without a callback nothing is invoked.
C3_ProgressCounts ==
    /\ Len(progress) = (IF has_callback THEN Len(finished) ELSE 0)
    /\ Len(finished) = Cardinality({i \in 1..Len(convs) : tstate[i] = "done"})
    /\ \A k \in 1..Len(progress) : progress[k] = <<k, Len(convs)>>
    /\ (b_pc = "returned" /\ has_callback) => Len(progress) = Len(convs)

\* A batch with a callback has returned after completing out of input order.
C3_Witness ==
    /\ b_pc = "returned"
    /\ has_callback
    /\ Len(convs) >= 2
    /\ ~InOrder(finished)
    /\ progress[Len(progress)] = <<Len(convs), Len(convs)>>

\* ------------------------------------------------- claims: evaluate, parser
\* What json.loads makes of the text the parser extracts from `text`.
Decoded(text) == JsonLoads(Strip(ExtractJson(text)))

\* C4: a failed model call (network error, timeout, non-2xx status, malformed
\* envelope) never makes evaluate() raise: it returns a result for the given
\* conversation with critical_error set and str(e) in summary and in
\* chain_of_thought.context_analysis.
C4_CallFailureIsResult ==
    (ev_pc = "done" /\ ev_reply.kind = "raise" /\ ev_reply.exc \in ModelCallFailures) =>
        /\ ev_out.kind = "return"
        /\ ev_out.value.conversation_id = ev_conv.id
        /\ ev_out.value.flags.critical_error = JBool(TRUE)
        /\ ev_out.value.summary = JStr(FailedPrefix \o ev_reply.exc.msg)
        /\ ev_out.value.chain_of_thought.context_analysis
               = JStr(ErrorPrefix \o ev_reply.exc.msg)

\* evaluate() has returned after the reply envelope lacked its keys.
C4_Witness ==
    /\ ev_pc = "done"
    /\ ev_reply.kind = "raise"
    /\ ev_reply.exc.type = "KeyError"
    /\ ev_out.kind = "return"

\* C5: _parse_response never raises, whatever the raw text: text that is not
\* JSON, JSON that is not an object and entries of the wrong shape all give a
\* result with critical_error set.
C5_ParseNeverRaises ==
    p_out # Nothing =>
        /\ p_out.kind = "return"
        /\ (Decoded(p_in.text).kind = "raise" \/ Decoded(p_in.text).value.t # "dict") =>
               p_out.value.flags.critical_error = JBool(TRUE)

\* C6: when the extracted text does not decode, the result has overall_score
\* 0.0, no dimension scores, critical_error set, and a context_analysis that
\* contains "ERROR" and the decoder's message.
C6_JsonErrorResult ==
    (p_out # Nothing /\ Decoded(p_in.text).kind = "raise") =>
        /\ p_out.kind = "return"
        /\ p_out.value.overall_score = Rat(0, 1)
        /\ p_out.value.dimension_scores = EmptyMap
        /\ p_out.value.flags.critical_error = JBool(TRUE)
        /\ Contains(p_out.value.chain_of_thought.context_analysis.s,
                    <<"E", "R", "R", "O", "R">>)
        /\ Contains(p_out.value.chain_of_thought.context_analysis.s,
                    Decoded(p_in.text).exc.msg)

\* C7: a reply that does not decode is recovered into an error result whose
\* raw_response is the text the model returned.
C7_RawTextPreserved ==
    (p_out # Nothing /\ Decoded(p_in.text).kind = "raise") =>
        /\ p_out.kind = "return"
        /\ p_out.value.raw_response = JStr(p_in.text)

\* `name` is a dimension of result r with a numeric score below `limit`.
ScoredBelow(r, name, limit) ==
    /\ name \in DOMAIN r.dimension_scores
    /\ r.dimension_scores[name].score.t = "num"
    /\ r.dimension_scores[name].score.n < limit

\* C8: in every result the engine produces, accuracy below 3 comes with
\* critical_error and compliance below 5 with compliance_issue, whatever
\* flags the model reported.
C8_FlagRules ==
    (ev_pc = "done" /\ ev_out.kind = "return") =>
        /\ ScoredBelow(ev_out.value, "accuracy", 30) =>
               ev_out.value.flags.critical_error = JBool(TRUE)
        /\ ScoredBelow(ev_out.value, "compliance", 50) =>
               ev_out.value.flags.compliance_issue = JBool(TRUE)

\* The flags a reply text reports as true, read off its JSON object.
ReportedFlags(text) ==
    LET d == Decoded(text)
    IN IF d.kind = "return" /\ d.value.t = "dict" /\ "flags" \in DOMAIN d.value.m
          /\ d.value.m["flags"].t = "dict"
       THEN {f \in FlagNames : f \in DOMAIN d.value.m["flags"].m
                               /\ d.value.m["flags"].m[f] = JBool(TRUE)}
       ELSE {}

\* C9 as stated: every flag the model reported as true is true in the result
\* evaluate() returns.
C9_ReportedFlagsAlwaysKept ==
    (ev_pc = "done" /\ ev_reply.kind = "return" /\ ev_out.kind = "return") =>
        \A f \in ReportedFlags(ev_reply.value) : ev_out.value.flags[f] = JBool(TRUE)

\* C9 amended: when the reply is parsed into a result (not recovered as an
\* error result), every flag the model reported as true is true in the result
\* evaluate() returns, whatever the dimension scores are.
C9_ReportedFlagsKept ==
    (/\ ev_pc = "done" /\ ev_reply.kind = "return" /\ ev_out.kind = "return"
     /\ Decoded(ev_reply.value).kind = "return"
     /\ ParseResponse(ev_reply.value, ev_conv.id, rubric).kind = "return") =>
        \A f \in ReportedFlags(ev_reply.value) : ev_out.value.flags[f] = JBool(TRUE)

\* A parsed reply reported escalation_needed, with accuracy and compliance
\* both at 5, and the result keeps the flag.
C9_Witness ==
    /\ ev_pc = "done" /\ ev_reply.kind = "return" /\ ev_out.kind = "return"
    /\ "escalation_needed" \in ReportedFlags(ev_reply.value)
    /\ ev_out.value.raw_response = JStr(ev_reply.value)
    /\ {"accuracy", "compliance"} \subseteq DOMAIN ev_out.value.dimension_scores
    /\ ~ScoredBelow(ev_out.value, "accuracy", 50)
    /\ ~ScoredBelow(ev_out.value, "compliance", 50)
    /\ ev_out.value.flags.escalation_needed = JBool(TRUE)

\* The direct parser call decoded an object and built a result from it.
ParsedOk ==
    /\ p_out # Nothing
    /\ p_out.kind = "return"
    /\ Decoded(p_in.text).kind = "return"

ParsedNames == DOMAIN p_out.value.dimension_scores
ParsedWeightSum ==
    SumOver([k \in ParsedNames |-> p_out.value.dimension_scores[k].weight], ParsedNames)
ParsedScoreSum ==
    SumOver([k \in ParsedNames |->
                p_out.value.dimension_scores[k].score.n
                    * p_out.value.dimension_scores[k].weight], ParsedNames)
AllScored(v) == \A k \in ParsedNames : p_out.value.dimension_scores[k].score = JNum(v)

SixDefaultParsed ==
    /\ ParsedOk
    /\ rubric = DEFAULT_RUBRIC
    /\ ParsedNames = DOMAIN DEFAULT_RUBRIC.dimensions
    /\ \A k \in ParsedNames : p_out.value.dimension_scores[k].score.t = "num"

\* C11 as stated: for a reply scoring the six default dimensions the
\* reported overall_score is sum(score * weight) with no rescaling: 8.05 for
\* the scores 8, 7.5, 9, 8, 8.5, 7 and 8.55 for the scores 10, 8, 9, 7, 8, 8.
C11_WeightedSumUnscaled ==
    SixDefaultParsed =>
        /\ p_out.value.overall_score.n * 1000 = p_out.value.overall_score.d * ParsedScoreSum
        /\ Decoded(p_in.text).value = MockLlmResponse =>
               p_out.value.overall_score = Rat(805, 100)
        /\ Decoded(p_in.text).value = WeightedScoreResponse =>
               p_out.value.overall_score = Rat(855, 100)

\* What the parser reports for the two test inputs: the weighted sum
\* divided by 5, that is 1.61 and 1.71.
C11_Observed ==
    /\ SixDefaultParsed
    /\ \/ /\ Decoded(p_in.text).value = MockLlmResponse
          /\ p_out.value.overall_score = Rat(161, 100)
       \/ /\ Decoded(p_in.text).value = WeightedScoreResponse
          /\ p_out.value.overall_score = Rat(171, 100)

\* The fields _parse_response reads with a default.
OptionalFields ==
    {"dimension_scores", "chain_of_thought", "flags", "summary", "improvement_suggestions"}

\* The direct parser call was given a JSON object with none of the
\* optional fields.
ParsedBare ==
    /\ p_out # Nothing
    /\ Decoded(p_in.text).kind = "return"
    /\ Decoded(p_in.text).value.t = "dict"
    /\ DOMAIN Decoded(p_in.text).value.m \cap OptionalFields = {}

\* C12: parsing a JSON object with none of the optional fields does not
\* raise; the result carries the caller's conversation id, no dimension
\* score, three false flags, and empty chain-of-thought fields, summary and
\* improvement_suggestions.
C12_MissingFieldsDefaults ==
    ParsedBare =>
        /\ p_out.kind = "return"
        /\ p_out.value.conversation_id = p_in.conversation_id
        /\ DOMAIN p_out.value.dimension_scores = {}
        /\ p_out.value.flags = EvaluationFlags(JBool(FALSE), JBool(FALSE), JBool(FALSE))
        /\ p_out.value.chain_of_thought
               = ChainOfThought(JStr(<<>>), JStr(<<>>), JStr(<<>>), JStr(<<>>))
        /\ p_out.value.summary = JStr(<<>>)
        /\ p_out.value.improvement_suggestions = JList(<<>>)

\* The reply of test_missing_fields_in_response was parsed for a caller
\* whose id differs from the one inside the reply.
C12_Witness ==
    /\ ParsedBare
    /\ Decoded(p_in.text).value = IncompleteResponse
    /\ p_in.conversation_id = ConvId(1)
    /\ p_out.kind = "return"

\* C13: in evaluate_batch every evaluate() call made so far got
\* include_few_shot = true exactly when the caller asked for few-shot
\* examples and the conversation is at input position 0, whatever the order
\* in which the tasks ran and finished.
C13_FewShotOnlyFirst ==
    \A i \in DOMAIN tstate :
        tstate[i] \in {"inflight", "done"} => (targs[i] <=> (few_shot /\ i = 1))

\* The caller asked for few-shot examples; the task at position 1 finished
\* before the task at position 0, which got the examples, and the other did not.
C13_Witness ==
    /\ few_shot
    /\ Len(finished) >= 2
    /\ finished[1] = 2
    /\ 1 \in {finished[k] : k \in 2..Len(finished)}
    /\ targs[1]
    /\ ~targs[2]

\* ------------------------------------------------- RubricLoader in operation
\* evaluation_service.py lines 92 and 104: the service loads the rubric by
\* name and constructs the engine with what load() returned.
LoaderLoad(rubric_name) ==
    /\ ev_pc = "idle" /\ b_pc = "idle" /\ p_out = Nothing /\ client = "none"
    /\ l_loads < MaxLoads
    /\ LET r == Load(rubric_name, l_cache, l_files, l_objs)
       IN /\ l_last' = [name |-> rubric_name, file |-> l_files[rubric_name],
                        out |-> r.out, how |-> r.how]
          /\ l_cache' = r.cache
          /\ l_objs' = r.objs
          /\ l_pinned' = IF /\ r.how \in {"default", "file"}
                            /\ r.out.kind = "return"
                            /\ l_pinned[rubric_name] = Nothing
                         THEN [l_pinned EXCEPT ![rubric_name] = r.out.value]
                         ELSE l_pinned
          /\ rubric' = IF r.out.kind = "return" THEN r.out.value.rubric ELSE rubric
    /\ l_loads' = l_loads + 1
    /\ UNCHANGED <<client, evalVars, batchVars, moreVars, toolVars, metaVars, l_files, l_changes, l_created, l_cat>>

\* Someone writes, replaces, locks or deletes <rubric_name>.json.
FileChange(rubric_name) ==
    /\ l_changes < MaxFileChanges
    /\ \E file \in FileStates \ {l_files[rubric_name]} :
           l_files' = [l_files EXCEPT ![rubric_name] = file]
    /\ l_changes' = l_changes + 1
    /\ UNCHANGED <<rubric, client, evalVars, batchVars, moreVars, toolVars, metaVars, l_cache, l_objs, l_loads,
                   l_last, l_pinned, l_created, l_cat>>

\* POST /rubrics (routes.py lines 741-758): the request body is validated
\* as a RubricCreate; the dimension list has up to two entries.
CreateRubric ==
    /\ \E n \in 0..2 : \E ws \in [1..n -> CreateWeights] :
           l_created' = [weights |-> ws, out |-> RubricCreate(ws)]
    /\ UNCHANGED <<rubric, client, evalVars, batchVars, moreVars, toolVars, metaVars, l_files, l_cache, l_objs,
                   l_changes, l_loads, l_last, l_pinned, l_cat>>

\* test_evaluation.py lines 92-104: loader.get_dimensions_for_category(
\* rubric, category) on the default rubric.
CategoryLookup ==
    /\ \E category \in {"retoure", "beschwerde", "allgemein"} :
           l_cat' = [category |-> category,
                     out |-> LoaderGetAttr("get_dimensions_for_category")]
    /\ UNCHANGED <<rubric, client, evalVars, batchVars, moreVars, toolVars, metaVars, l_files, l_cache, l_objs,
                   l_changes, l_loads, l_last, l_pinned, l_created>>

\* A loader over a changing configs directory.
NextLoader ==
    \/ \E n \in RubricNames : LoaderLoad(n)
    \/ \E n \in RubricNames : FileChange(n)

SpecLoader == Init /\ [][NextLoader]_vars

\* Rubric creation requests and category lookups.
NextRubricApi ==
    \/ CreateRubric
    \/ CategoryLookup

SpecRubricApi == Init /\ [][NextRubricApi]_vars

\* The last load() ran past the cache.
LoadedUncached == l_last # Nothing /\ l_last.how # "cache"

\* The file as the last load() found it was absent, unreadable or not
\* parseable into a rubric.
NoUsableFile ==
    \/ ~FileExists(l_last.file)
    \/ LoadFromFile(l_last.file, l_last.name).kind = "raise"

C15_CachedInstance ==
    (l_last # Nothing /\ l_pinned[l_last.name] # Nothing) =>
        l_last.out = Returned(l_pinned[l_last.name])

\* A rubric read from a file came back from the cache, the same object,
\* after the file was deleted.
C15_Witness ==
    /\ l_last # Nothing
    /\ l_last.name = "strict_compliance"
    /\ l_last.how = "cache"
    /\ l_last.file = FileAbsent
    /\ l_last.out.value = Instance(1, FILE_RUBRIC)
    /\ l_pinned[l_last.name] = Instance(1, FILE_RUBRIC)
    /\ l_objs = 1

\* The entries the claim expects for a category: one per dimension of the
\* default rubric with its base weight, compliance at 0.25 for "retoure"
\* and tone at 0.30 for "beschwerde".
ExpectedCategoryDimensions(category) ==
    {[key |-> k,
      weight |-> IF category = "retoure" /\ k = "compliance" THEN 25
                 ELSE IF category = "beschwerde" /\ k = "tone" THEN 30
                 ELSE DEFAULT_RUBRIC.dimensions[k].weight] :
        k \in DOMAIN DEFAULT_RUBRIC.dimensions}

\* C16 as stated: get_dimensions_for_category(rubric, category) returns one
\* entry per rubric dimension with the base weight, except compliance at
\* 0.25 for "retoure" and tone at 0.30 for "beschwerde".
C16_CategoryWeights ==
    l_cat # Nothing =>
        /\ l_cat.out.kind = "return"
        /\ l_cat.out.value = ExpectedCategoryDimensions(l_cat.category)

\* The sum of the weights of the rubric the engine holds.
EngineWeightSum ==
    SumOver([k \in DOMAIN rubric.dimensions |-> rubric.dimensions[k].weight],
            DOMAIN rubric.dimensions)

\* C17 as stated: rubric creation rejects every dimension list whose weights
\* sum outside [0.99, 1.01], and every rubric handed to the engine, also one
\* RubricLoader read from a file, has weights summing within that range.
C17_WeightsSumToOne ==
    /\ l_created # Nothing =>
          (l_created.out.kind = "return"
              => (99 <= TotalWeight(l_created.weights)
                  /\ TotalWeight(l_created.weights) <= 101))
    /\ (l_last # Nothing /\ l_last.out.kind = "return") =>
          (99 <= EngineWeightSum /\ EngineWeightSum <= 101)

\* The creation half of C17 alone: what RubricCreate accepts sums within
\* [0.99, 1.01].
C17_CreationValidated ==
    l_created # Nothing =>
        (l_created.out.kind = "return"
            <=> /\ \A i \in DOMAIN l_created.weights : l_created.weights[i] \in 0..100
                /\ TotalWeight(l_created.weights) \in 99..101)

\* ---------------------------------------------------- LanguageToolIntegration
\* A chatbot text of n words: a sequence of words and white space.
Word == [k |-> "word"]
TextOfWords(n) == [i \in 1..(2 * n - 1) |-> IF i % 2 = 1 THEN Word ELSE Ws]

\* len(chatbot_text.split())
WordCount(text) == Cardinality({i \in DOMAIN text : text[i] # Ws})

\* The texts enhance_evaluation is given: empty, white space only, 10 words
\* and 50 words.
ChatbotTexts == {<<>>, <<Ws, Ws>>, TextOfWords(10), TextOfWords(50)}

\* The words the code looks for in the category id of a match.
GRAMMAR == <<"G", "R", "A", "M", "M", "A", "R">>
SPELLER == <<"S", "P", "E", "L", "L", "E", "R">>
SPELLING == <<"S", "P", "E", "L", "L", "I", "N", "G">>

\* One entry of the checker's "matches".
Match(category_id) ==
    JDict(("message" :> JStr(<<"Possible mistake found">>))
          @@ ("rule" :> JDict("category" :> JDict("id" :> JStr(category_id)))))

\* Replies of the checker with 0, 1, 2, 3 and 6 matches.
MatchLists ==
    {[i \in 1..n |-> Match(GRAMMAR)] : n \in {0, 1, 2, 3, 6}}
    \cup {<<Match(<<"T", "Y", "P", "O", "S">>), Match(<<"H", "U", "N">> \o SPELLER),
            Match(<<"M", "I", "S">> \o SPELLING)>>}

\* How the POST to <base_url>/check ends: a JSON body (the usual object, or
\* one without "matches", or a list), or a failure: no connection, a
\* non-2xx status at raise_for_status, a body that is not JSON.
CheckFailures ==
    {Exc("ConnectError", <<"All connection attempts failed">>),
     Exc("HTTPStatusError", <<"Server error '500 Internal Server Error'">>),
     Exc("JSONDecodeError", <<"Expecting value: line 1 column 1 (char 0)">>)}
CheckBodies ==
    {JDict("matches" :> JList(m)) : m \in MatchLists}
    \cup {JDict(EmptyMap), JList(<<>>)}

\* languagetool.py lines 59-72: what check_text returns for an outcome of
\* the POST.
CheckText(reply) ==
    IF reply.kind = "return" THEN reply
    ELSE IF IsException(reply.exc)
    THEN Returned(JDict(("matches" :> JList(<<>>)) @@ ("error" :> JStr(reply.exc.msg))))
    ELSE reply

\* languagetool.py lines 106-107: the category id of a match.
CategoryOf(match) ==
    DictGet(DictGet(DictGet(match, "rule", JDict(EmptyMap)),
                    "category", JDict(EmptyMap)),
            "id", JStr(<<>>)).s

\* languagetool.py lines 105-115: the matches counted as spelling, grammar
\* and style.
IsSpelling(match) ==
    Contains(CategoryOf(match), SPELLER) \/ Contains(CategoryOf(match), SPELLING)
IsGrammar(match) == ~IsSpelling(match) /\ Contains(CategoryOf(match), GRAMMAR)

\* Mutant of Adjustment: the thresholds taken as inclusive (>=).
AdjustmentInclusive(error_count, word_count) ==
    LET words == IF word_count > 1 THEN word_count ELSE 1
    IN IF 10 * error_count >= words THEN -20
       ELSE IF 20 * error_count >= words THEN -10
       ELSE IF 50 * error_count >= words THEN -5
       ELSE 0

\* languagetool.py lines 98 and 122-129: the adjustment, in tenths, for
\* error_rate = error_count / max(word_count, 1) against 0.1, 0.05, 0.02.
Adjustment(error_count, word_count) ==
    LET words == IF word_count > 1 THEN word_count ELSE 1
    IN IF 10 * error_count > words THEN -20
       ELSE IF 20 * error_count > words THEN -10
       ELSE IF 50 * error_count > words THEN -5
       ELSE 0

\* max(1, min(5, score)), in tenths.
Clamp(score) == IF score > 50 THEN 50 ELSE IF score < 10 THEN 10 ELSE score

\* languagetool.py lines 143-147: overall_score over the updated dimensions.
RecalculateOverall(dimension_scores, overall_score) ==
    LET names == DOMAIN dimension_scores
        total_weight == SumOver([k \in names |-> dimension_scores[k].weight], names)
    IN IF total_weight > 0
       THEN Rat(SumOver([k \in names |->
                            dimension_scores[k].score.n * dimension_scores[k].weight],
                        names),
                50 * total_weight)
       ELSE overall_score

\* languagetool.py lines 93-149: enhance_evaluation from the dict check_text
\* returned onwards, for a result as evaluate() returns it (every score a
\* number).  The error rate in the evidence line is written as the
\* fraction it is computed from.
ApplyCheck(result, chatbot_text, check_result) ==
    IF check_result.t # "dict" THEN Raised(AttributeError(check_result, "get")) ELSE
    LET matches == DictGet(check_result, "matches", JList(<<>>)).l
        word_count == WordCount(chatbot_text)
        error_count == Len(matches)
        spelling == Cardinality({i \in DOMAIN matches : IsSpelling(matches[i])})
        grammar == Cardinality({i \in DOMAIN matches : IsGrammar(matches[i])})
        style == error_count - spelling - grammar
    IN IF "language_quality" \notin DOMAIN result.dimension_scores
       THEN Returned(result)
       ELSE
       LET original_dim == result.dimension_scores["language_quality"]
           new_dim ==
               DimensionScore(
                   JNum(Clamp(original_dim.score.n + Adjustment(error_count, word_count))),
                   original_dim.weight,
                   JStr(original_dim.reasoning.s
                        \o <<" [LanguageTool: ", ToString(error_count), " issues found - ",
                             ToString(grammar), " grammar, ", ToString(spelling),
                             " spelling, ", ToString(style), " style]">>),
                   JList(original_dim.evidence.l
                         \o <<JStr(<<"LanguageTool error rate: ",
                                     ToString(error_count), "/",
                                     ToString(IF word_count > 1 THEN word_count ELSE 1)>>)>>))
           dims == [result.dimension_scores EXCEPT !["language_quality"] = new_dim]
       IN Returned([result EXCEPT
                       !.dimension_scores = dims,
                       !.overall_score = RecalculateOverall(dims, result.overall_score)])

\* `not chatbot_text.strip()`
IsBlank(text) == \A i \in DOMAIN text : text[i] = Ws

\* A reply scoring language_quality (in tenths) and accuracy.
LanguageReply(score) ==
    JDict("dimension_scores" :>
             JDict(("language_quality" :>
                       JDict(("score" :> JNum(score))
                             @@ ("reasoning" :> JStr(<<"Good German">>))
                             @@ ("evidence" :> JList(<<JStr(<<"Sehr geehrte Kundin">>)>>))))
                   @@ ("accuracy" :> JDict("score" :> JNum(50)))))

\* The model replies behind the results handed to enhance_evaluation:
\* language_quality at 1, 1.5, 4 and 5, the test fixture's 8.5, a reply
\* without dimensions, and a failed model call.
EnhanceReplies ==
    {Returned(<<JsonDoc(d)>>) :
        d \in {LanguageReply(sc) : sc \in {10, 15, 40, 50}}
              \cup {MockLlmResponse, IncompleteResponse}}
    \cup {Raised(Exc("ReadTimeout", <<>>))}

\* evaluation_service.py lines 105-118: the service hands the result of
\* evaluate() and the chatbot's text to enhance_evaluation (languagetool.py
\* lines 89-92): a blank text returns the result at once, otherwise
\* check_text opens a client if there is none and posts the text.
EnhanceStart ==
    /\ lt_pc = "idle"
    /\ ev_pc = "idle" /\ b_pc = "idle" /\ p_out = Nothing
    /\ \E reply \in EnhanceReplies, text \in ChatbotTexts :
           LET result == Evaluate(Conversation(1), reply, rubric, DefaultConfig, 250).value
           IN /\ lt_in' = [result |-> result, chatbot_text |-> text]
              /\ IF IsBlank(text)
                 THEN /\ lt_pc' = "done"
                      /\ lt_out' = Returned(result)
                      /\ UNCHANGED lt_client
                 ELSE /\ lt_pc' = "checking"
                      /\ lt_client' = "open"
                      /\ UNCHANGED lt_out
    /\ UNCHANGED <<rubric, client, evalVars, batchVars, moreVars, loaderVars, metaVars, lt_reply>>

\* The POST ends with `reply`, and enhance_evaluation runs to its end
\* (lines 93-149).
EnhanceEnd(reply) ==
    /\ lt_pc = "checking"
    /\ lt_reply' = reply
    /\ lt_out' = LET checked == CheckText(reply)
                 IN IF checked.kind = "raise" THEN checked
                    ELSE ApplyCheck(lt_in.result, lt_in.chatbot_text, checked.value)
    /\ lt_pc' = "done"
    /\ UNCHANGED <<rubric, client, evalVars, batchVars, moreVars, loaderVars, metaVars, lt_client, lt_in>>

CheckReturns == \E body \in CheckBodies : EnhanceEnd(Returned(body))
CheckFails == \E e \in CheckFailures : EnhanceEnd(Raised(e))
CheckCancelled == EnhanceEnd(Raised(Cancelled))

NextTool ==
    \/ EnhanceStart
    \/ CheckReturns
    \/ CheckFails
    \/ CheckCancelled

SpecTool == Init /\ [][NextTool]_vars

\* The checker failed: no connection, a non-2xx status, or a reply that is
\* not JSON.
CheckerFailed ==
    /\ lt_pc = "done"
    /\ lt_reply # Nothing
    /\ lt_reply.kind = "raise"
    /\ lt_reply.exc \in CheckFailures

\* C18 as stated: when the grammar checker fails, enhance_evaluation
\* returns the result exactly as it was passed in (language_quality score,
\* reasoning and evidence, every other dimension, overall_score) and raises
\* nothing.
C18_FailureLeavesResult ==
    CheckerFailed => lt_out = Returned(lt_in.result)

\* What happens instead when the result has a language_quality dimension:
\* its reasoning and evidence grow by a "0 issues found" note, and its score
\* is clamped into [1, 5].
C18_Observed ==
    /\ CheckerFailed
    /\ lt_out.kind = "return"
    /\ lt_in.result.dimension_scores["language_quality"].score = JNum(40)
    /\ lt_out.value.dimension_scores["language_quality"].score = JNum(40)
    /\ lt_out.value.dimension_scores["language_quality"].reasoning
           # lt_in.result.dimension_scores["language_quality"].reasoning
    /\ lt_out.value.overall_score = lt_in.result.overall_score

\* ------------------------------------------------- MetaEvaluationService
\* A float: a number of 1/100000 (raw statistics) or of 1/10000 (after
\* round(x, 4)), or NaN.  Comparisons with NaN are false.
F(v) == [nan |-> FALSE, v |-> v]
NaN == [nan |-> TRUE, v |-> 0]
Lt(a, b) == ~a.nan /\ ~b.nan /\ a.v < b.v
Ge(a, b) == ~a.nan /\ ~b.nan /\ a.v >= b.v

\* round(float(x), 4) of a raw statistic: 1/100000 to 1/10000.
Round4(x) ==
    IF x.nan THEN x
    ELSE IF x.v >= 0 THEN F((x.v + 5) \div 10)
    ELSE F(0 - ((5 - x.v) \div 10))

\* f"{x:.2f}" of a rounded statistic.
Fmt2(x) ==
    IF x.nan THEN <<"nan">>
    ELSE LET q == ((IF x.v >= 0 THEN x.v ELSE 0 - x.v) + 50) \div 100
         IN (IF x.v < 0 THEN <<"-">> ELSE <<>>)
            \o <<ToString(q \div 100), ".", ToString((q % 100) \div 10), ToString(q % 10)>>

\* schemas/evaluation.py lines 275-283
CorrelationMetrics(pearson_r, spearman_rho, kendall_tau, mean_absolute_error, root_mean_squared_error, cohen_kappa, sample_size) ==
    [pearson_r |-> pearson_r, spearman_rho |-> spearman_rho,
     kendall_tau |-> kendall_tau, mean_absolute_error |-> mean_absolute_error,
     root_mean_squared_error |-> root_mean_squared_error,
     cohen_kappa |-> cohen_kappa, sample_size |-> sample_size]

\* The all-zero metrics of lines 55-63 and 137-145.
ZeroMetrics(n) == CorrelationMetrics(F(0), F(0), F(0), F(0), F(0), F(0), n)

\* What scipy and sklearn compute for two score arrays (lines 148-165), as
\* raw values: Pearson's r (NaN for a constant array) and the mean absolute
\* error vary; the statistics no decision reads have one value each.
Stats(pearson_r, mean_absolute_error) ==
    [pearson_r |-> pearson_r, spearman_rho |-> F(75004), kendall_tau |-> F(60004),
     mean_absolute_error |-> mean_absolute_error,
     root_mean_squared_error |-> F(mean_absolute_error.v + 20000),
     cohen_kappa |-> F(50000)]

\* Raw overall statistics: r of -0.2, 0.69994, 0.79994, 0.79996, 0.8 and
\* 0.87 or NaN; MAE of 1.00004, 1.00006 and 1.50006.
OverallStats ==
    {Stats(r, mae) :
        r \in {NaN, F(-20000), F(69994), F(79994), F(79996), F(80000), F(87000)},
        mae \in {F(100004), F(100006), F(150006)}}

\* Raw statistics of one dimension: r of 0.69994, 0.69996 or NaN.
DimensionStats == {Stats(r, F(50000)) : r \in {NaN, F(69994), F(69996)}}

\* The dimension keys of the pairs.
DimKeys == {"accuracy", "tone"}

\* _calculate_correlation_metrics (lines 128-175) for arrays of length n,
\* given what the statistics functions return.
CalculateCorrelationMetrics(n, stats) ==
    IF n < 2 THEN ZeroMetrics(n)
    ELSE CorrelationMetrics(Round4(stats.pearson_r), Round4(stats.spearman_rho),
                            Round4(stats.kendall_tau), Round4(stats.mean_absolute_error),
                            Round4(stats.root_mean_squared_error),
                            Round4(stats.cohen_kappa), n)

\* len(pairs)
TotalPairs(pairs) == SumOver(pairs, DOMAIN pairs)

\* The pairs in which both judge and human scored dimension dim_key.
DimCount(pairs, dim_key) ==
    SumOver([k \in DOMAIN pairs |->
                IF \E i \in DOMAIN k.dims : k.dims[i] = dim_key THEN pairs[k] ELSE 0],
            DOMAIN pairs)

\* _calculate_dimension_correlations (lines 177-210): metrics for every
\* dimension with at least 5 paired scores, in first-seen order.
CalculateDimensionCorrelations(pairs, dim_order, dim_stats) ==
    LET computed == SelectSeq(dim_order, LAMBDA k : DimCount(pairs, k) >= 5)
    IN [i \in DOMAIN computed |->
           [key |-> computed[i],
            metrics |-> CalculateCorrelationMetrics(DimCount(pairs, computed[i]),
                                                    dim_stats[computed[i]])]]

\* Mutant of CheckCalibrationNeeded: the mean absolute error is not looked at.
CheckCalibrationNeededNoMae(overall, dimensions) ==
    \/ Lt(overall.pearson_r, F(8000))
    \/ \E i \in DOMAIN dimensions : Lt(dimensions[i].metrics.pearson_r, F(7000))

\* _check_calibration_needed (lines 212-233)
CheckCalibrationNeeded(overall, dimensions) ==
    IF Lt(overall.pearson_r, F(8000)) THEN TRUE
    ELSE IF Lt(F(10000), overall.mean_absolute_error) THEN TRUE
    ELSE \E i \in DOMAIN dimensions : Lt(dimensions[i].metrics.pearson_r, F(7000))

RECURSIVE JoinWeak(_)
\* ', '.join(weak_dimensions), each entry being "key (r)".
JoinWeak(weak) ==
    IF weak = <<>> THEN <<>>
    ELSE <<weak[1].key, " (">> \o Fmt2(weak[1].metrics.pearson_r) \o <<")">>
         \o (IF Len(weak) > 1 THEN <<", ">> ELSE <<>>) \o JoinWeak(Tail(weak))

\* The messages of _generate_recommendations (lines 246-295).
Recommendation(which, arg) ==
    CASE which = "sample_size" ->
            <<"Current sample size (", ToString(arg), ") is small. ",
              "Aim for at least 50 human annotations for reliable metrics.">>
      [] which = "weak" ->
            <<"Overall correlation (">> \o Fmt2(arg)
            \o <<") is below acceptable threshold (0.70). ",
                 "Consider reviewing prompt engineering and few-shot examples.">>
      [] which = "moderate" ->
            <<"Overall correlation (">> \o Fmt2(arg)
            \o <<") is moderate. ", "Minor calibration adjustments recommended.">>
      [] which = "excellent" ->
            <<"Excellent correlation (">> \o Fmt2(arg)
            \o <<") achieved. ", "Judge is well-calibrated with human assessments.">>
      [] which = "mae" ->
            <<"High mean absolute error (">> \o Fmt2(arg)
            \o <<"). ", "Judge scores deviate significantly from human scores on average.">>
      [] which = "dimensions" ->
            <<"Weak correlation in dimensions: ">> \o JoinWeak(arg)
            \o <<". ", "Review rubric criteria and scoring anchors for these dimensions.">>
      [] which = "calibration" ->
            <<"CALIBRATION RECOMMENDED: Run recalibration process with additional ",
              "human annotations to improve judge accuracy.">>
      [] OTHER -> <<"Judge performance is within acceptable parameters.">>

\* The one recommendation of calculate_metrics for fewer than 10 pairs.
InsufficientData ==
    <<"Insufficient data for meta-evaluation. Need at least 10 human annotations.">>

\* Mutant of OrAcceptable: the list is returned as collected.
AsCollected(recommendations) == recommendations

\* Lines 294-295: a list without any recommendation gets the
\* acceptable-parameters message.
OrAcceptable(recommendations) ==
    IF recommendations = <<>> THEN <<Recommendation("acceptable", <<>>)>>
    ELSE recommendations

\* _generate_recommendations (lines 235-297)
GenerateRecommendations(overall, dimensions, calibration_needed) ==
    LET weak == SelectSeq(dimensions, LAMBDA d : Lt(d.metrics.pearson_r, F(7000)))
        recommendations ==
            (IF overall.sample_size < 50
             THEN <<Recommendation("sample_size", overall.sample_size)>> ELSE <<>>)
            \o (IF Lt(overall.pearson_r, F(7000))
                THEN <<Recommendation("weak", overall.pearson_r)>>
                ELSE IF Lt(overall.pearson_r, F(8000))
                THEN <<Recommendation("moderate", overall.pearson_r)>>
                ELSE IF Ge(overall.pearson_r, F(8700))
                THEN <<Recommendation("excellent", overall.pearson_r)>>
                ELSE <<>>)
            \o (IF Lt(F(15000), overall.mean_absolute_error)
                THEN <<Recommendation("mae", overall.mean_absolute_error)>> ELSE <<>>)
            \o (IF weak # <<>> THEN <<Recommendation("dimensions", weak)>> ELSE <<>>)
            \o (IF calibration_needed THEN <<Recommendation("calibration", <<>>)>> ELSE <<>>)
    IN OrAcceptable(recommendations)

\* A MetaEvaluationResponse without its timestamp.
MetaEvaluationResponse(overall_correlation, dimension_correlations, calibration_needed, recommendations) ==
    [overall_correlation |-> overall_correlation,
     dimension_correlations |-> dimension_correlations,
     calibration_needed |-> calibration_needed,
     recommendations |-> recommendations]

\* Mutant of TooFewPairs: statistics are attempted from 2 pairs on.
TooFewPairsForStatistics(n) == n < 2

\* meta_evaluation_service.py line 53
TooFewPairs(n) == n < 10

\* calculate_metrics (lines 43-98) over the pairs, given what the
\* statistics functions return for the overall arrays and per dimension.
CalculateMetrics(pairs, dim_order, overall_stats, dim_stats) ==
    IF TooFewPairs(TotalPairs(pairs))
    THEN MetaEvaluationResponse(ZeroMetrics(TotalPairs(pairs)), <<>>, TRUE,
                                <<InsufficientData>>)
    ELSE LET overall == CalculateCorrelationMetrics(TotalPairs(pairs), overall_stats)
             dimensions == CalculateDimensionCorrelations(pairs, dim_order, dim_stats)
             calibration_needed == CheckCalibrationNeeded(overall, dimensions)
         IN MetaEvaluationResponse(
                overall, dimensions, calibration_needed,
                GenerateRecommendations(overall, dimensions, calibration_needed))

\* An evaluation gets its human annotation: one more row in the join of
\* _get_score_pairs (lines 100-126).  Dimension keys not seen before come
\* after the ones already known.
AddPair(kind) ==
    /\ TotalPairs(m_pairs) < MaxPairs
    /\ m_pairs' = [m_pairs EXCEPT ![kind] = @ + 1]
    /\ m_dim_order' =
           m_dim_order
           \o SelectSeq(kind.dims,
                        LAMBDA k : \A i \in DOMAIN m_dim_order : m_dim_order[i] # k)
    /\ m_report' = Nothing
    /\ UNCHANGED <<rubric, client, evalVars, batchVars, moreVars, loaderVars, toolVars>>

\* GET /meta-evaluation (routes.py lines 729-736): calculate_metrics() over
\* the pairs in the database.
MetaCalculate ==
    /\ m_report = Nothing
    /\ \E overall_stats \in OverallStats, dim_stats \in [DimKeys -> DimensionStats] :
           m_report' = CalculateMetrics(m_pairs, m_dim_order, overall_stats, dim_stats)
    /\ UNCHANGED <<rubric, client, evalVars, batchVars, moreVars, loaderVars, toolVars,
                   m_pairs, m_dim_order>>

NextMeta ==
    \/ \E kind \in PairKinds : AddPair(kind)
    \/ MetaCalculate

SpecMeta == Init /\ [][NextMeta]_vars

\* C19: with fewer than 10 pairs the report has six zero correlation
\* metrics, no dimension correlations, calibration_needed = true and the
\* insufficient-data message as its only recommendation, whatever the pairs.
C19_InsufficientData ==
    (m_report # Nothing /\ TotalPairs(m_pairs) < 10) =>
        /\ m_report.overall_correlation = ZeroMetrics(TotalPairs(m_pairs))
        /\ m_report.dimension_correlations = <<>>
        /\ m_report.calibration_needed
        /\ m_report.recommendations = <<InsufficientData>>

\* Nine pairs of all three kinds, seven of them scoring "tone", got the
\* insufficient-data report.
C19_Witness ==
    /\ m_report # Nothing
    /\ TotalPairs(m_pairs) = 9
    /\ \A k \in PairKinds : m_pairs[k] >= 1
    /\ DimCount(m_pairs, "tone") >= 7
    /\ m_report.recommendations = <<InsufficientData>>

\* C20: with at least 10 pairs calibration_needed is true exactly when the
\* overall Pearson r is below 0.80, or the overall MAE is above 1.0, or some
\* computed dimension has a Pearson r below 0.70.
C20_CalibrationNeeded ==
    (m_report # Nothing /\ TotalPairs(m_pairs) >= 10) =>
        (m_report.calibration_needed
            <=> \/ Lt(m_report.overall_correlation.pearson_r, F(8000))
                \/ Lt(F(10000), m_report.overall_correlation.mean_absolute_error)
                \/ \E i \in DOMAIN m_report.dimension_correlations :
                       Lt(m_report.dimension_correlations[i].metrics.pearson_r, F(7000)))

\* Ten or more pairs whose overall r is 0.87 and whose computed dimensions
\* are at 0.70, and a MAE just above 1.0: calibration is needed for the MAE
\* alone.
C20_Witness ==
    /\ m_report # Nothing
    /\ TotalPairs(m_pairs) >= 10
    /\ m_report.overall_correlation.pearson_r = F(8700)
    /\ m_report.overall_correlation.mean_absolute_error = F(10001)
    /\ m_report.dimension_correlations # <<>>
    /\ \A i \in DOMAIN m_report.dimension_correlations :
           m_report.dimension_correlations[i].metrics.pearson_r = F(7000)
    /\ m_report.calibration_needed

\* The same pairs with a MAE of 1.0 and a raw r of 0.79996, reported as
\* 0.8: no calibration needed.
C20_WitnessNotNeeded ==
    /\ m_report # Nothing
    /\ TotalPairs(m_pairs) >= 10
    /\ m_report.overall_correlation.pearson_r = F(8000)
    /\ m_report.overall_correlation.mean_absolute_error = F(10000)
    /\ m_report.dimension_correlations # <<>>
    /\ ~m_report.calibration_needed
    /\ m_report.recommendations = <<Recommendation("sample_size", TotalPairs(m_pairs))>>

\* ------------------------------------------------ claims: the recommendations
\* How many pairs of one kind a database holds.
PairCounts == {0, 4, 10, 40, 50}

\* Databases of annotated evaluations: from none to a hundred pairs, with
\* both dimensions, one or none reaching the 5 paired scores.
Databases ==
    {[k \in PairKinds |->
         IF k.dims = <<"accuracy", "tone">> THEN both
         ELSE IF k.dims = <<"tone">> THEN tone ELSE bare] :
     both \in PairCounts, tone \in {0, 6}, bare \in {0, 40}}

\* The orders in which the pairs of a database may first show its
\* dimension keys.
DimOrders(pairs) ==
    LET both == \E k \in PairKinds : k.dims = <<"accuracy", "tone">> /\ pairs[k] > 0
        tone == \E k \in PairKinds : k.dims = <<"tone">> /\ pairs[k] > 0
    IN IF both THEN {<<"accuracy", "tone">>} \cup (IF tone THEN {<<"tone", "accuracy">>} ELSE {})
       ELSE IF tone THEN {<<"tone">>} ELSE {<<>>}

\* calculate_metrics() over one of the databases.
ReportOver ==
    /\ g_call = Nothing
    /\ \E pairs \in Databases :
         \E dim_order \in DimOrders(pairs) :
           \E overall_stats \in OverallStats, dim_stats \in [DimKeys -> DimensionStats] :
               g_call' = [pairs |-> pairs,
                          report |-> CalculateMetrics(pairs, dim_order, overall_stats, dim_stats)]
    /\ UNCHANGED restOfReport

\* The report is read and dropped.
ReportDone ==
    /\ g_call # Nothing
    /\ g_call' = Nothing
    /\ UNCHANGED restOfReport

NextReport ==
    \/ ReportOver
    \/ ReportDone

SpecReport == Init /\ [][NextReport]_vars

\* Whether msg is one of the recommendations.
HasRec(recs, msg) == \E i \in DOMAIN recs : recs[i] = msg

\* The place of a recommendation in the documented order, told by how the
\* message begins.
RecRank(msg) ==
    CASE msg[1] = "Current sample size (" -> 1
      [] msg[1] \in {"Overall correlation (", "Excellent correlation ("} -> 2
      [] msg[1] = "High mean absolute error (" -> 3
      [] msg[1] = "Weak correlation in dimensions: " -> 4
      [] msg[1] = Recommendation("calibration", <<>>)[1] -> 5
      [] msg = Recommendation("acceptable", <<>>) -> 6
      [] OTHER -> 0

C21_WitnessAcceptable ==
    /\ g_call # Nothing
    /\ TotalPairs(g_call.pairs) = 50
    /\ g_call.report.overall_correlation.pearson_r = F(8000)
    /\ g_call.report.dimension_correlations # <<>>
    /\ ~g_call.report.calibration_needed
    /\ g_call.report.recommendations = <<Recommendation("acceptable", <<>>)>>

\* ------------------------------------------------------- the batch job runs
\* POST /jobs (routes.py lines 340-393): the matching conversations are
\* counted (none: 400), the job is stored as PENDING and the task queued.
CreateJob ==
    /\ j_status = "none"
    /\ \E n \in 1..MaxJobConvs, size \in BatchSizes :
           /\ db_convs' = n
           /\ j_total' = n
           /\ j_batch_size' = size
    /\ j_status' = "pending"
    /\ w_pc' = "queued"
    /\ UNCHANGED <<j_completed, j_failed, j_evals, w_retries, w_offset, w_batch,
                   w_completed, w_failed, w_session, w_log, backend_failures,
                   c_pc, revoked>>
    /\ UNCHANGED restOfJob

\* POST /conversations (routes.py lines 86-103): one more conversation that
\* the job's query matches.
CreateConversation ==
    /\ j_status # "none"
    /\ db_convs < MaxJobConvs
    /\ db_convs' = db_convs + 1
    /\ UNCHANGED <<j_status, j_total, j_batch_size, j_completed, j_failed, j_evals,
                   w_pc, w_retries, w_offset, w_batch, w_completed, w_failed,
                   w_session, w_log, backend_failures, c_pc, revoked>>
    /\ UNCHANGED restOfJob

\* A worker starts the task (tasks.py lines 73-118): fresh session, the job
\* is set RUNNING and committed, the counters start at zero.
WorkerBegin ==
    /\ w_pc = "queued"
    /\ ~revoked
    /\ j_status' = "running"
    /\ w_offset' = 0
    /\ w_completed' = 0
    /\ w_failed' = 0
    /\ w_session' = "active"
    /\ w_log' = <<>>
    /\ w_batch' = <<>>
    /\ w_pc' = "fetch"
    /\ UNCHANGED <<j_total, j_batch_size, j_completed, j_failed, j_evals, db_convs,
                   w_retries, backend_failures, c_pc, revoked>>
    /\ UNCHANGED restOfJob

\* Lines 122-127 with a non-empty page: query.offset(offset).limit(batch_size).
WorkerFetch ==
    /\ w_pc = "fetch"
    /\ w_offset < db_convs
    /\ LET n == IF db_convs - w_offset < j_batch_size
                THEN db_convs - w_offset ELSE j_batch_size
       IN w_batch' = [i \in 1..n |-> w_offset + i]
    /\ w_pc' = "item"
    /\ UNCHANGED <<j_status, j_total, j_batch_size, j_completed, j_failed, j_evals,
                   db_convs, w_retries, w_offset, w_completed, w_failed, w_session,
                   w_log, backend_failures, c_pc, revoked>>
    /\ UNCHANGED restOfJob

\* Lines 126-127 and 174-189: an empty page ends the loop; the job is set
\* COMPLETED and committed.
WorkerFinish ==
    /\ w_pc = "fetch"
    /\ w_offset >= db_convs
    /\ j_status' = "completed"
    /\ w_pc' = "returned"
    /\ UNCHANGED <<j_total, j_batch_size, j_completed, j_failed, j_evals, db_convs,
                   w_retries, w_offset, w_batch, w_completed, w_failed, w_session,
                   w_log, backend_failures, c_pc, revoked>>
    /\ UNCHANGED restOfJob

\* The `except Exception` handler of the job (lines 197-207): the job is set
\* FAILED and committed, then the task is retried while retries are left.
\* When the commit itself raises, the exception leaves the handler and the
\* task ends as failed.
JobFailed(session) ==
    IF CommitRaises(session)
    THEN /\ w_pc' = "raised"
         /\ UNCHANGED <<j_status, w_retries>>
    ELSE /\ j_status' = "failed"
         /\ IF w_retries < max_retries
            THEN /\ w_pc' = "queued"
                 /\ w_retries' = w_retries + 1
            ELSE /\ w_pc' = "returned"
                 /\ UNCHANGED w_retries

\* One pass of the loop body (lines 130-170) for the next conversation:
\* evaluate_conversation ends with `outcome`, the counters are updated and
\* committed, the task state is updated.
ItemStep(outcome, update_state_ok) ==
    LET conv == Head(w_batch)
        completed_now == IF outcome = "stored" THEN w_completed + 1 ELSE w_completed
        failed_now == IF outcome = "stored" THEN w_failed ELSE w_failed + 1
        session_now == SessionAfter(outcome, w_session)
    IN /\ w_completed' = completed_now
       /\ w_failed' = failed_now
       /\ w_session' = session_now
       /\ w_log' = Append(w_log, outcome)
       /\ IF CommitRaises(session_now)
          THEN /\ JobFailed(session_now)
               /\ UNCHANGED <<j_completed, j_failed, j_evals, w_batch, w_offset,
                              backend_failures>>
          ELSE /\ j_completed' = completed_now
               /\ j_failed' = failed_now
               /\ j_evals' = IF outcome = "stored"
                             THEN [j_evals EXCEPT ![conv] = @ + 1] ELSE j_evals
               /\ IF update_state_ok
                  THEN /\ w_batch' = Tail(w_batch)
                       /\ IF Tail(w_batch) = <<>>
                          THEN /\ w_offset' = w_offset + j_batch_size
                               /\ w_pc' = "fetch"
                          ELSE UNCHANGED <<w_offset, w_pc>>
                       /\ UNCHANGED <<j_status, w_retries, backend_failures>>
                  ELSE /\ backend_failures' = backend_failures + 1
                       /\ JobFailed(session_now)
                       /\ UNCHANGED <<w_batch, w_offset>>

\* The loop body runs for the next conversation of the page.
WorkerItem ==
    /\ w_pc = "item"
    /\ \E outcome \in ItemOutcomes : ItemStep(outcome, TRUE)
    /\ UNCHANGED <<j_total, j_batch_size, db_convs, c_pc, revoked>>
    /\ UNCHANGED restOfJob

\* The same, with task.update_state (line 162) raising because the result
\* backend cannot be reached.
WorkerItemBackendDown ==
    /\ w_pc = "item"
    /\ backend_failures < MaxBackendFailures
    /\ \E outcome \in ItemOutcomes \ {"flush_failed"} : ItemStep(outcome, FALSE)
    /\ UNCHANGED <<j_total, j_batch_size, db_convs, c_pc, revoked>>
    /\ UNCHANGED restOfJob

\* cancel_job up to the revoke (routes.py lines 481-494): the job is read,
\* its status checked, the task id revoked with terminate=True.
CancelCheck ==
    /\ c_pc = "none"
    /\ j_status # "none"
    /\ IF j_status \in {"pending", "running"}
       THEN /\ revoked' = TRUE
            /\ c_pc' = "checked"
       ELSE /\ c_pc' = "rejected"
            /\ UNCHANGED revoked
    /\ UNCHANGED <<j_status, j_total, j_batch_size, j_completed, j_failed, j_evals,
                   db_convs, w_pc, w_retries, w_offset, w_batch, w_completed,
                   w_failed, w_session, w_log, backend_failures>>
    /\ UNCHANGED restOfJob

\* cancel_job from line 496 to the commit of its session: CANCELLED.
CancelCommit ==
    /\ c_pc = "checked"
    /\ j_status' = "cancelled"
    /\ c_pc' = "done"
    /\ UNCHANGED <<j_total, j_batch_size, j_completed, j_failed, j_evals, db_convs,
                   w_pc, w_retries, w_offset, w_batch, w_completed, w_failed,
                   w_session, w_log, backend_failures, revoked>>
    /\ UNCHANGED restOfJob

\* The revoke reaches the worker: a running task is terminated, a queued
\* one is discarded when it is received.
WorkerRevoked ==
    /\ revoked
    /\ w_pc \in {"queued", "fetch", "item"}
    /\ w_pc' = "dead"
    /\ UNCHANGED <<j_status, j_total, j_batch_size, j_completed, j_failed, j_evals,
                   db_convs, w_retries, w_offset, w_batch, w_completed, w_failed,
                   w_session, w_log, backend_failures, c_pc, revoked>>
    /\ UNCHANGED restOfJob

NextJob ==
    \/ CreateJob
    \/ CreateConversation
    \/ WorkerBegin
    \/ WorkerFetch
    \/ WorkerFinish
    \/ WorkerItem
    \/ WorkerItemBackendDown
    \/ CancelCheck
    \/ CancelCommit
    \/ WorkerRevoked

\* One batch job, its Celery task and one cancel request.
SpecJob == Init /\ [][NextJob]_vars

\* The task has ended without being revoked.
TaskEnded == w_pc \in {"returned", "raised"}

\* C22: when evaluate_conversation raises for a conversation, the item is
\* counted as failed and the loop goes on: with no other failure and no
\* cancel request, the task ends with every conversation processed,
\* completed + failed equal to their number, and the job COMPLETED.
C22_ItemFailureDoesNotAbort ==
    (/\ TaskEnded
     /\ c_pc = "none" /\ backend_failures = 0
     /\ \E i \in DOMAIN w_log : w_log[i] # "stored")
        => /\ j_status = "completed"
           /\ Len(w_log) >= j_total
           /\ j_completed + j_failed = Len(w_log)

\* What holds of the counters after every item: the local ones always, the
\* committed ones in the first run of the task.
C22_CountsAfterEachItem ==
    /\ w_completed + w_failed = Len(w_log)
    /\ (w_pc \in {"fetch", "item"} /\ w_retries = 0) => j_completed + j_failed = Len(w_log)

\* The same claim for exceptions raised before the session is touched: it
\* holds.
C22_PromptFailureDoesNotAbort ==
    (/\ TaskEnded
     /\ c_pc = "none" /\ backend_failures = 0
     /\ \E i \in DOMAIN w_log : w_log[i] = "raised"
     /\ \A i \in DOMAIN w_log : w_log[i] # "flush_failed")
        => /\ j_status = "completed"
           /\ Len(w_log) >= j_total
           /\ j_completed + j_failed = Len(w_log)

\* A job of three conversations whose second one raised in the prompt
\* builder: all three processed, job COMPLETED.
C22_ObservedContinues ==
    /\ w_pc = "returned"
    /\ w_log = <<"stored", "raised", "stored">>
    /\ j_status = "completed"
    /\ j_completed = 2 /\ j_failed = 1

\* The same job with flush() raising for the second conversation: the
\* third is never taken up and the job stays RUNNING.
C22_ObservedAborts ==
    /\ w_pc = "raised"
    /\ j_total = 3
    /\ w_log = <<"stored", "flush_failed">>
    /\ j_status = "running"
    /\ j_completed = 1 /\ j_failed = 0

\* ------------------------------------------- EvaluationService: HTTP clients
\* Leaving `async with JudgeEngine(...) as engine` (JudgeEngine.__aexit__,
\* engine.py lines 60-64), by return or by exception: the client is closed.
AsyncWithExit(engine_client) ==
    IF engine_client = "open" THEN "closed" ELSE engine_client

\* evaluate_conversation or evaluate_batch is called and enters its
\* `async with JudgeEngine(...)` block (evaluation_service.py lines 92-104
\* and 215-230): __aenter__ opens the engine's client.
SvcStart ==
    /\ s_pc = "idle"
    /\ \E method \in {"evaluate_conversation", "evaluate_batch"},
          enhance_with_languagetool \in BOOLEAN,
          LANGUAGETOOL_ENABLED \in BOOLEAN,
          chatbot_text \in ChatbotTexts :
           s_call' = [method |-> method,
                      enhance_with_languagetool |-> enhance_with_languagetool,
                      LANGUAGETOOL_ENABLED |-> LANGUAGETOOL_ENABLED,
                      chatbot_text |-> chatbot_text]
    /\ s_engine' = "open"
    /\ s_lt' = "none"
    /\ s_out' = Nothing
    /\ s_pc' = "entered"
    /\ UNCHANGED restOfSvc

\* engine.evaluate / engine.evaluate_batch ends (lines 105-109, 231-236):
\* with results, or with an exception that passes through the block
\* (cancellation; an AttributeError from the prompt builder).
SvcEvaluate ==
    /\ s_pc = "entered"
    /\ \E outcome \in {"result", "AttributeError", "CancelledError"} :
           IF outcome = "result"
           THEN /\ s_pc' = IF s_call.method = "evaluate_conversation"
                           THEN "evaluated" ELSE "exited"
                /\ s_engine' = IF s_call.method = "evaluate_conversation"
                               THEN s_engine ELSE AsyncWithExit(s_engine)
                /\ UNCHANGED s_out
           ELSE /\ s_engine' = AsyncWithExit(s_engine)
                /\ s_out' = Raised(Exc(outcome, <<>>))
                /\ s_pc' = "raised"
    /\ UNCHANGED <<s_call, s_lt>>
    /\ UNCHANGED restOfSvc

\* Lines 111-118 and the end of the block: the optional enhancement.  A
\* LanguageToolIntegration is constructed and enhance_evaluation called on
\* it; check_text opens a client for a text that is not blank (languagetool.py
\* lines 56-57, 89-92).  A failing check is swallowed; a cancellation is not.
SvcEnhance ==
    /\ s_pc = "evaluated"
    /\ IF s_call.enhance_with_languagetool /\ s_call.LANGUAGETOOL_ENABLED
          /\ ~IsBlank(s_call.chatbot_text)
       THEN /\ s_lt' = "open"
            /\ \E outcome \in {"checked", "check_failed", "CancelledError"} :
                   IF outcome = "CancelledError"
                   THEN /\ s_out' = Raised(Cancelled)
                        /\ s_pc' = "raised"
                   ELSE /\ s_pc' = "exited"
                        /\ UNCHANGED s_out
       ELSE /\ s_pc' = "exited"
            /\ UNCHANGED <<s_lt, s_out>>
    /\ s_engine' = AsyncWithExit(s_engine)
    /\ UNCHANGED s_call
    /\ UNCHANGED restOfSvc

\* Lines 120-157 and 238-273: the results are stored (flush may raise) and
\* the call returns.
SvcStore ==
    /\ s_pc = "exited"
    /\ \E flushed \in BOOLEAN :
           IF flushed
           THEN s_pc' = "returned" /\ s_out' = Returned("stored")
           ELSE s_pc' = "raised" /\ s_out' = Raised(Exc("IntegrityError", <<>>))
    /\ UNCHANGED <<s_call, s_engine, s_lt>>
    /\ UNCHANGED restOfSvc

\* The caller drops the service; the next request makes a new one.
SvcDone ==
    /\ s_pc \in {"returned", "raised"}
    /\ s_pc' = "idle"
    /\ s_call' = Nothing
    /\ s_engine' = "none"
    /\ s_lt' = "none"
    /\ s_out' = Nothing
    /\ UNCHANGED restOfSvc

NextSvc ==
    \/ SvcStart
    \/ SvcEvaluate
    \/ SvcEnhance
    \/ SvcStore
    \/ SvcDone

SpecSvc == Init /\ [][NextSvc]_vars

\* C23: when evaluate_conversation or evaluate_batch has returned or
\* raised, no HTTP client opened by its JudgeEngine or by its
\* LanguageToolIntegration is still open.
C23_ClientsClosed ==
    s_pc \in {"returned", "raised"} => (s_engine # "open" /\ s_lt # "open")

\* The engine's half of it: the JudgeEngine client is closed on every way
\* out.
C23_EngineClientClosed ==
    s_pc \in {"exited", "returned", "raised"} => s_engine = "closed"

\* evaluate_conversation returned after an enhancement over ten words: the
\* engine's client is closed, the checker's is still open.
C23_Observed ==
    /\ s_pc = "returned"
    /\ s_call.method = "evaluate_conversation"
    /\ WordCount(s_call.chatbot_text) = 10
    /\ s_engine = "closed"
    /\ s_lt = "open"

\* ------------------------------------------ JudgeEngine.evaluate: the request
RECURSIVE DimensionsText(_, _)
\* One "- **name** (weight%): description" line per rubric dimension
\* (engine.py lines 68-71).
DimensionsText(rubric_, names) ==
    IF names = {} THEN <<>>
    ELSE LET d == CHOOSE x \in names : TRUE
         IN <<"- **", rubric_.dimensions[d].name, "** (",
              ToString(rubric_.dimensions[d].weight), "%)">>
            \o DimensionsText(rubric_, names \ {d})

\* _build_system_prompt (lines 66-114): it takes no argument; the rubric's
\* calibration notes close the text.
BuildSystemPrompt(rubric_) ==
    <<"You are an expert evaluator for German e-commerce customer support chatbot conversations.",
      "## Evaluation Dimensions">>
    \o DimensionsText(rubric_, DOMAIN rubric_.dimensions)
    \o <<"## Instructions", "## Output Format">>
    \o rubric_.calibration_notes

\* _build_user_prompt (lines 116-139)
BuildUserPrompt(rubric_, conversation, include_few_shot) ==
    (IF include_few_shot /\ rubric_.few_shot_examples # <<>>
     THEN <<"## Examples">>
          \o SubSeq(rubric_.few_shot_examples, 1,
                    IF Len(rubric_.few_shot_examples) < 2
                    THEN Len(rubric_.few_shot_examples) ELSE 2)
     ELSE <<>>)
    \o <<"## Conversation to Evaluate", conversation.category,
         ToString(conversation.id[2])>>

\* Mutant of RequestsAfter: a failed request is sent once more.
RequestsAfterRetry(sent, reply) ==
    IF reply.kind = "raise" THEN Append(sent, sent[Len(sent)]) ELSE sent

\* The requests sent once evaluate() has handled the reply (lines 163-175):
\* neither the parser nor the except branch sends anything.
RequestsAfter(sent, reply) == sent

\* evaluate(conversation, include_few_shot, include_calibration) up to the
\* POST (lines 158-164, 224-255).  Without a client _call_llm raises before
\* anything is sent and evaluate returns the error result.
CallEvaluate ==
    /\ q_pc = "idle"
    /\ b_pc = "idle" /\ ev_pc = "idle" /\ p_out = Nothing
    /\ \E i \in 1..2, include_few_shot \in BOOLEAN, include_calibration \in BOOLEAN :
           /\ q_args' = [conversation |-> Conversation(i),
                         include_few_shot |-> include_few_shot,
                         include_calibration |-> include_calibration]
           /\ IF client = "open"
              THEN /\ q_requests' =
                          <<[system |-> BuildSystemPrompt(rubric),
                             user |-> BuildUserPrompt(rubric, Conversation(i),
                                                      include_few_shot)]>>
                   /\ q_pc' = "calling"
                   /\ q_out' = Nothing
              ELSE /\ q_requests' = <<>>
                   /\ q_pc' = "done"
                   /\ q_out' = Evaluate(Conversation(i), Raised(NoClientError),
                                        rubric, DefaultConfig, 250)
    /\ UNCHANGED restOfCall

\* How the model API may answer one request.
CallReplies ==
    BatchReplies \cup {Raised(e) : e \in ModelCallFailures} \cup {Raised(Cancelled)}

\* The POST ends and evaluate() runs to its end.
CallReply ==
    /\ q_pc = "calling"
    /\ \E reply \in CallReplies :
           /\ q_out' = Evaluate(q_args.conversation, reply, rubric, DefaultConfig, 250)
           /\ q_requests' = RequestsAfter(q_requests, reply)
    /\ q_pc' = "done"
    /\ UNCHANGED q_args
    /\ UNCHANGED restOfCall

\* The caller takes the result.
CallDone ==
    /\ q_pc = "done"
    /\ q_pc' = "idle"
    /\ q_args' = Nothing
    /\ q_requests' = <<>>
    /\ q_out' = Nothing
    /\ UNCHANGED restOfCall

NextCall ==
    \/ AEnter
    \/ AExit
    \/ CallEvaluate
    \/ CallReply
    \/ CallDone

\* One engine, evaluate() calls one after the other.
SpecCall == Init /\ [][NextCall]_vars

\* C24: the system prompt of the request holds the rubric's calibration
\* notes exactly when evaluate was called with include_calibration = true.
C24_CalibrationOnRequest ==
    (q_requests # <<>> /\ rubric.calibration_notes # <<>>) =>
        \A k \in DOMAIN q_requests :
            Contains(q_requests[k].system, rubric.calibration_notes)
                <=> q_args.include_calibration

\* What the code does: the notes are in every system prompt.
C24_CalibrationAlways ==
    q_requests # <<>> =>
        \A k \in DOMAIN q_requests :
            Contains(q_requests[k].system, rubric.calibration_notes)

\* evaluate(..., include_calibration=False) with the default rubric has sent
\* a system prompt that ends with the calibration notes.
C24_Observed ==
    /\ q_pc = "calling"
    /\ ~q_args.include_calibration
    /\ rubric = DEFAULT_RUBRIC
    /\ q_requests[1].system[Len(q_requests[1].system)] = "## Calibration Guidelines"

\* ------------------------------------------------ claims: dimension weights
\* The direct parser call decoded an object whose dimension_scores is an
\* object of objects, and returned the parsed result.
ParsedDimensions ==
    /\ ParsedOk
    /\ Decoded(p_in.text).value.t = "dict"
    /\ DictGet(Decoded(p_in.text).value, "dimension_scores", JDict(EmptyMap)).t = "dict"
    /\ p_out.value.raw_response # PyNone

\* The dimension_scores object of the reply.
RawDimensions == DictGet(Decoded(p_in.text).value, "dimension_scores", JDict(EmptyMap)).m

\* C25: every entry of the reply's dimension_scores becomes a DimensionScore
\* whose weight is the rubric's weight for that name (0.1 for a name the
\* rubric does not have), whatever weight the reply states, and whose
\* score, reasoning and evidence default to 3, "" and [] when missing.
C25_WeightFromRubric ==
    ParsedDimensions =>
        /\ DOMAIN p_out.value.dimension_scores = DOMAIN RawDimensions
        /\ \A k \in DOMAIN RawDimensions :
               LET dim_data == RawDimensions[k].m
                   parsed == p_out.value.dimension_scores[k]
               IN /\ parsed.weight = IF k \in DOMAIN rubric.dimensions
                                     THEN rubric.dimensions[k].weight ELSE 10
                  /\ parsed.score = IF "score" \in DOMAIN dim_data
                                    THEN dim_data["score"] ELSE JNum(30)
                  /\ parsed.reasoning = IF "reasoning" \in DOMAIN dim_data
                                        THEN dim_data["reasoning"] ELSE JStr(<<>>)
                  /\ parsed.evidence = IF "evidence" \in DOMAIN dim_data
                                       THEN dim_data["evidence"] ELSE JList(<<>>)

\* The fixture reply, which states weights of 0.25 to 0.10, parsed by an
\* engine with the file rubric: accuracy is stored with the rubric's 0,
\* tone with 0.5, and efficiency, which the rubric lacks, with 0.1.
C25_Witness ==
    /\ ParsedDimensions
    /\ Decoded(p_in.text).value = MockLlmResponse
    /\ rubric = FILE_RUBRIC
    /\ RawDimensions["accuracy"].m["weight"] = JNum100(25)
    /\ p_out.value.dimension_scores["accuracy"].weight = 0
    /\ p_out.value.dimension_scores["tone"].weight = 50
    /\ p_out.value.dimension_scores["efficiency"].weight = 10

\* An entry without score, reasoning and evidence, under a name no rubric
\* has: score 3, weight 0.1, "" and [].
C25_WitnessDefaults ==
    /\ ParsedDimensions
    /\ "helpfulness" \in DOMAIN RawDimensions
    /\ RawDimensions["helpfulness"] = JDict(EmptyMap)
    /\ p_out.value.dimension_scores["helpfulness"]
           = DimensionScore(JNum(30), 10, JStr(<<>>), JList(<<>>))

\* ------------------------------------------- claims: the language adjustment
\* enhance_evaluation has checked a text for a result that has a
\* language_quality dimension, and returned.
Checked ==
    /\ lt_pc = "done"
    /\ lt_reply # Nothing
    /\ CheckText(lt_reply).kind = "return"
    /\ CheckText(lt_reply).value.t = "dict"
    /\ "language_quality" \in DOMAIN lt_in.result.dimension_scores

\* The number of issues the checker reported.
IssueCount == Len(DictGet(CheckText(lt_reply).value, "matches", JList(<<>>)).l)

C26_WitnessClamped ==
    /\ Checked
    /\ WordCount(lt_in.chatbot_text) = 10
    /\ IssueCount = 6
    /\ lt_in.result.dimension_scores["language_quality"].score = JNum(15)
    /\ lt_out.value.dimension_scores["language_quality"].score = JNum(10)

\* One issue in fifty words (rate 0.02, not above it): no adjustment.
C26_WitnessBoundary ==
    /\ Checked
    /\ WordCount(lt_in.chatbot_text) = 50
    /\ IssueCount = 1
    /\ lt_in.result.dimension_scores["language_quality"].score = JNum(40)
    /\ lt_out.value.dimension_scores["language_quality"].score = JNum(40)

\* ------------------------------------------------- claims: no engine retry
NextRequests ==
    \/ AEnter
    \/ AExit
    \/ CallEvaluate
    \/ CallReply
    \/ CallDone
    \/ (q_pc = "idle" /\ BatchStart)
    \/ \E i \in 1..Len(convs) : TaskStart(i)
    \/ \E i \in 1..Len(convs) : TaskStartNoClient(i)
    \/ \E i \in 1..Len(convs) : TaskResume(i)
    \/ \E i \in 1..Len(convs) : TaskReply(i)
    \/ BatchReturn

\* One engine: evaluate() calls one after the other, then one evaluate_batch.
SpecRequests == Init /\ [][NextRequests]_vars

\* evaluate() ended with its error result.
ReturnedErrorResult ==
    /\ q_pc = "done"
    /\ q_out.kind = "return"
    /\ q_out.value.flags.critical_error = JBool(TRUE)
    /\ q_out.value.raw_response = PyNone

\* C27: the engine never retries a model call.  One evaluate() call sends at
\* most one request, also when it ends with the error result, and
\* evaluate_batch over N conversations sends at most N requests.
C27_NoRetry ==
    /\ Len(q_requests) <= 1
    /\ ReturnedErrorResult => Len(q_requests) <= 1
    /\ b_pc # "idle" => requests <= Len(convs)
    /\ b_pc # "idle" =>
           requests <= Cardinality({i \in 1..Len(convs) : tstate[i] \in {"inflight", "done"}})

\* evaluate() sent its one request, the request failed, and the error result
\* came back.
C27_Witness ==
    /\ ReturnedErrorResult
    /\ Len(q_requests) = 1

\* A batch of MaxConvs conversations returned after a failed call, with
\* MaxConvs requests sent.
C27_WitnessBatch ==
    /\ b_pc = "returned"
    /\ Len(convs) = MaxConvs
    /\ requests = MaxConvs
    /\ \E i \in 1..Len(convs) : results[i].flags.critical_error = JBool(TRUE)

\* ------------------------------------------- claims: the batch always ends
\* convs[i] = Malformed stands for a conversation one of whose messages has a
\* "role" that is not a string (messages: list[dict[str, Any]]): building
\* the user prompt calls .upper() on it (engine.py line 128) and raises.
Malformed == 0

\* What a task ends with when evaluate() raised while building the prompt.
PromptRaised == Raised(Exc("AttributeError", <<"upper">>))

\* evaluate_batch over a list that holds one malformed conversation.
BatchStartMalformed ==
    /\ b_pc = "idle" /\ ev_pc = "idle" /\ p_out = Nothing
    /\ \E n \in 1..MaxConvs, bad \in 1..MaxConvs :
           /\ bad <= n
           /\ convs' = [i \in 1..n |-> IF i = bad THEN Malformed ELSE i]
    /\ concurrency' \in 1..MaxConcurrency
    /\ few_shot' \in BOOLEAN
    /\ has_callback' \in BOOLEAN
    /\ sem' = concurrency'
    /\ waiters' = <<>>
    /\ tstate' = [i \in 1..Len(convs') |-> "new"]
    /\ targs' = [i \in 1..Len(convs') |-> FALSE]
    /\ tresult' = [i \in 1..Len(convs') |-> Nothing]
    /\ completed' = 0
    /\ progress' = <<>>
    /\ finished' = <<>>
    /\ requests' = 0
    /\ results' = <<>>
    /\ b_pc' = "running"
    /\ UNCHANGED <<serviceVars, rubric, client, evalVars>>

\* Task i holds a permit and calls evaluate() for a malformed conversation:
\* _build_user_prompt raises before the try block (lines 160-163), with or
\* without a client, the exception leaves `async with semaphore` (the permit
\* is released) and ends the task.  No suspension point lies in between.
TaskPromptRaises(i) ==
    /\ b_pc = "running"
    /\ convs[i] = Malformed
    /\ \/ /\ tstate[i] = "new"
          /\ \A j \in 1..(i - 1) : tstate[j] # "new"
          /\ ~SemLocked
          /\ ReleaseAndWake(i, sem - 1)
          /\ UNCHANGED waiters
       \/ /\ tstate[i] = "woken"
          /\ waiters' = SelectSeq(waiters, LAMBDA w : w # i)
          /\ ReleaseAndWake(i, sem)
    /\ targs' = [targs EXCEPT ![i] = FewShotArg(few_shot, i - 1)]
    /\ tresult' = [tresult EXCEPT ![i] = PromptRaised]
    /\ UNCHANGED <<serviceVars, rubric, client, evalVars, b_pc, convs, concurrency, few_shot,
                   has_callback, results, completed, progress, finished, requests>>

\* asyncio.gather without return_exceptions (line 220): the first exception
\* of a task is raised in evaluate_batch, which leaves with it; the other
\* tasks are not cancelled.
BatchRaise ==
    /\ b_pc = "running"
    /\ \E i \in 1..Len(convs) : tresult[i] = PromptRaised
    /\ b_pc' = "raised"
    /\ UNCHANGED <<serviceVars, rubric, client, evalVars, convs, concurrency, few_shot,
                   has_callback, sem, waiters, tstate, targs, tresult, completed,
                   progress, finished, requests, results>>

NextAnyBatch ==
    \/ AEnter
    \/ AExit
    \/ BatchStart
    \/ BatchStartMalformed
    \/ \E i \in 1..Len(convs) : (convs[i] # Malformed \/ SemLocked) /\ TaskStart(i)
    \/ \E i \in 1..Len(convs) : convs[i] # Malformed /\ TaskStartNoClient(i)
    \/ \E i \in 1..Len(convs) : convs[i] # Malformed /\ TaskResume(i)
    \/ \E i \in 1..Len(convs) : TaskPromptRaises(i)
    \/ \E i \in 1..Len(convs) : TaskReply(i)
    \/ (\A i \in 1..Len(convs) : tresult[i] # PromptRaised) /\ BatchReturn
    \/ BatchRaise

\* One engine, one evaluate_batch call over any list of conversations.
SpecAnyBatch == Init /\ [][NextAnyBatch]_vars

\* The event loop runs every task that is ready, every model call ends, and
\* gather resumes evaluate_batch once the tasks are done.
BatchFairness ==
    /\ \A i \in 1..MaxConvs : WF_vars(i <= Len(convs) /\ TaskStart(i))
    /\ \A i \in 1..MaxConvs : WF_vars(i <= Len(convs) /\ TaskStartNoClient(i))
    /\ \A i \in 1..MaxConvs : WF_vars(i <= Len(convs) /\ TaskResume(i))
    /\ \A i \in 1..MaxConvs : WF_vars(i <= Len(convs) /\ TaskReply(i))
    /\ WF_vars(BatchReturn)

\* One evaluate_batch call over conversations whose prompts can be built,
\* every model call ending.
SpecLive == Spec /\ BatchFairness

\* No task holds a permit, waits for one or has a call in flight.
AllReleased ==
    /\ sem = concurrency
    /\ waiters = <<>>
    /\ \A i \in 1..Len(convs) : tstate[i] \notin {"inflight", "waiting", "woken"}

\* C28: every evaluate_batch call ends by returning, and when it has ended
\* every semaphore permit is released and no call is in flight.
C28_EndsReturnedAndReleased ==
    /\ b_pc # "raised"
    /\ b_pc \in {"returned", "raised"} => AllReleased

\* What holds: when every prompt can be built, evaluate_batch returns once
\* every model call has ended, with every permit released, also after
\* failed calls.
C28_WellFormedReturns ==
    /\ [](b_pc = "returned" => AllReleased)
    /\ (b_pc = "running") ~> (b_pc = "returned")

\* evaluate_batch left with the AttributeError while another task's model
\* call was in flight.
C28_Observed ==
    /\ b_pc = "raised"
    /\ \E i \in 1..Len(convs) : tstate[i] = "inflight"
    /\ sem < concurrency

\* A batch with more conversations than permits returned after a failed call.
C28_ObservedReturned ==
    /\ b_pc = "returned"
    /\ Len(convs) > concurrency
    /\ AllReleased
    /\ \E i \in 1..Len(convs) : results[i].flags.critical_error = JBool(TRUE)

\* ------------------------------------------------------ claims: cancelling
\* C29: once cancel_job has set the job CANCELLED the status stays
\* CANCELLED, whatever the worker does afterwards, and cancel_job changes
\* the status only of a job that is PENDING or RUNNING.
C29_CancelledIsFinal ==
    [][/\ (j_status = "cancelled") => (j_status' = "cancelled")
       /\ (c_pc = "checked" /\ c_pc' = "done") => j_status \in {"pending", "running"}]_vars

\* The first half alone: no worker step changes a CANCELLED status.
C29_WorkerKeepsCancelled ==
    [][(j_status = "cancelled") => (j_status' = "cancelled")]_vars

\* The second half alone: cancel_job's write finds the job PENDING or RUNNING.
C29_CancelOnlyActive ==
    [][(c_pc = "checked" /\ c_pc' = "done") => j_status \in {"pending", "running"}]_vars

\* What holds: cancel_job decides on the status it read, and the status is
\* CANCELLED right after its commit.
C29_CancelChecksStatus ==
    [][/\ (c_pc = "none" /\ c_pc' = "checked") => j_status \in {"pending", "running"}
       /\ (c_pc = "none" /\ c_pc' = "rejected") => j_status' = j_status
       /\ (c_pc = "checked" /\ c_pc' = "done") => j_status' = "cancelled"]_vars

\* The job was cancelled, and the worker, not yet terminated, has since set
\* it COMPLETED.
C29_Observed ==
    /\ c_pc = "done"
    /\ revoked
    /\ j_status = "completed"
    /\ w_pc = "returned"

\* ------------------------------------------- claims: stored at most once
\* C30: within one job, task retries included, no conversation has two
\* Evaluation records of the job, and completed_conversations +
\* failed_conversations never exceeds total_conversations.
C30_StoredAtMostOnce ==
    /\ \A c \in 1..MaxJobConvs : j_evals[c] <= 1
    /\ j_completed + j_failed <= j_total

\* The first half alone.
C30_NoSecondRecord == \A c \in 1..MaxJobConvs : j_evals[c] <= 1

\* The second half alone.
C30_CountsWithinTotal == j_completed + j_failed <= j_total

\* What holds: during the first run of the task, with no conversation added
\* since the job was created, both halves hold.
C30_FirstRun ==
    (w_retries = 0 /\ db_convs = j_total) => C30_NoSecondRecord /\ C30_CountsWithinTotal

\* The retried task stored the first conversation a second time.
C30_Observed ==
    /\ w_retries = 1
    /\ j_evals[1] = 2
    /\ db_convs = j_total

\* A conversation created after the job was counted, with no retry.
C30_ObservedOverTotal ==
    /\ w_retries = 0
    /\ j_completed + j_failed > j_total

====
